---------------------------- MODULE Spec2Model ----------------------------
(***************************************************************************)
(* Quantitative valuation and optimization engine of fintech-project:      *)
(* portfolio optimizers, option pricing, bond analytics, regression, and   *)
(* risk and valuation measures.  The TypeScript code computes on IEEE-754  *)
(* doubles, and so does every component here: a number is a binary64       *)
(* value with its sign, NaN and the infinities included, each operation    *)
(* is rounded as the hardware rounds it, and Math.exp is the fdlibm        *)
(* routine of the JavaScript engine.  Math.pow is approximated by the      *)
(* engine as its platform approximates it: a call of it answers any of     *)
(* the doubles within PowUlps units in the last place of fdlibm's answer,  *)
(* and the power itself when the power is a double.                        *)
(***************************************************************************)
EXTENDS Integers, Sequences, FiniteSets, TLC

VARIABLES
  \* ---- portfolio optimizers (markowitz.ts, efficient-frontier) ----
  optimizer,         \* which optimizer was called
  returns,           \* params.returns            (doubles)
  covarianceMatrix,  \* params.covarianceMatrix   (doubles)
  constraints,       \* params.constraints, a record; defined = FALSE: undefined
  bestWeights,       \* let bestWeights           (doubles)
  bestValue,         \* bestSharpe / bestVariance / bestReturn
  iter,              \* the loop counter
  targetReturn,      \* the target return argument, [defined, value]
  targetRisk,        \* the target risk argument, [defined, value]
  pc,                \* "call", "loop", "returned", "raised"
  result,            \* the PortfolioResult returned
  \* ---- option pricing (black-scholes.ts) ----
  optionFn,          \* "blackScholes" or "calculateImpliedVolatility"
  option,            \* the arguments S, K, T, r, sigma and optionType
  iv,                \* marketPrice, tolerance and maxIterations of the search
  optionPc,          \* "call", "raised"
  optionOut,         \* how the call ended
  \* ---- bonds (bond valuation, yield.ts) ----
  bondFn,            \* "calculateBondPrice" or "calculateYTM"
  bond,              \* the arguments, doubles; maxIterations a whole number
  ytm,               \* let ytm
  ytmIter,           \* the loop counter i of calculateYTM
  bondPc,            \* "call", "loop", "returned", "raised"
  bondOut,           \* what the call returned, and how its loop ended
  \* ---- regression (src/unnamed/part_030, part_032) ----
  regFn,             \* which regression was called
  reg,               \* the arguments: y, the series x, and the line y lies on
  regPc,             \* "call", "returned", "raised"
  regOut,            \* the result returned
  \* ---- risk and valuation measures (risk.ts, src/unnamed/part_000, ...) ----
  calcFn,            \* which function was called
  calcArgs,          \* its arguments, a record
  calcLocals,        \* the locals of a function that runs a loop
  calcPc,            \* "call", "loop", "returned", "raised"
  calcOut            \* the value returned

optVars == <<optimizer, returns, covarianceMatrix, constraints, targetReturn,
             targetRisk, bestWeights, bestValue, iter, pc, result>>

optionVars == <<optionFn, option, iv, optionPc, optionOut>>

bondVars == <<bondFn, bond, ytm, ytmIter, bondPc, bondOut>>

regVars == <<regFn, reg, regPc, regOut>>

calcVars == <<calcFn, calcArgs, calcLocals, calcPc, calcOut>>

vars == <<optVars, optionVars, bondVars, regVars, calcVars>>

\* what the steps of one component leave alone
exceptOptimizer == <<optionVars, bondVars, regVars, calcVars>>
exceptOptions == <<optVars, bondVars, regVars, calcVars>>
exceptBonds == <<optVars, optionVars, regVars, calcVars>>
exceptRegression == <<optVars, optionVars, bondVars, calcVars>>
exceptMeasures == <<optVars, optionVars, bondVars, regVars>>

\* the optimizer variables while another component runs
OptimizerIdle ==
  /\ optimizer = "none"
  /\ returns = <<>>
  /\ covarianceMatrix = <<>>
  /\ constraints = [defined |-> FALSE]
  /\ targetReturn = [defined |-> FALSE, value |-> 0]
  /\ targetRisk = [defined |-> FALSE, value |-> 0]
  /\ bestWeights = <<>>
  /\ bestValue = 0
  /\ iter = 0
  /\ pc = "idle"
  /\ result = <<>>

\* the option-pricing variables while another component runs
OptionsIdle ==
  /\ optionFn = "none"
  /\ option = <<>>
  /\ iv = <<>>
  /\ optionPc = "idle"
  /\ optionOut = <<>>

\* the bond variables while another component runs
BondsIdle ==
  /\ bondFn = "none"
  /\ bond = <<>>
  /\ ytm = <<>>
  /\ ytmIter = 0
  /\ bondPc = "idle"
  /\ bondOut = <<>>

\* the regression variables while another component runs
RegressionIdle ==
  /\ regFn = "none"
  /\ reg = <<>>
  /\ regPc = "idle"
  /\ regOut = <<>>

\* the variables of the risk and valuation measures while another component
\* runs
MeasuresIdle ==
  /\ calcFn = "none"
  /\ calcArgs = <<>>
  /\ calcLocals = <<>>
  /\ calcPc = "idle"
  /\ calcOut = <<>>

-----------------------------------------------------------------------------
(* Bounds of the model *)

\* iterations of the random search that are explored (the code runs 10000)
MaxIter == 2

-----------------------------------------------------------------------------
RECURSIVE Pow10(_)
Pow10(k) == IF k = 0 THEN 1 ELSE 10 * Pow10(k - 1)

(***************************************************************************)
(* IEEE-754 binary64, the number type of the portfolio optimizers.         *)
(* A natural number of any size is a sequence of limbs, least significant  *)
(* first, without leading zero limbs; zero is the empty sequence.          *)
(***************************************************************************)
Pow2Table == <<1, 2, 4, 8, 16, 32, 64, 128, 256, 512, 1024, 2048, 4096, 8192, 16384>>

LimbBits == Len(Pow2Table) - 1

LimbBase == Pow2Table[LimbBits + 1]

TwoTo(n) == Pow2Table[n + 1]

Limb(a, i) == IF i <= Len(a) THEN a[i] ELSE 0

RECURSIVE BigTrim(_)
BigTrim(a) ==
  IF a = <<>> THEN a
  ELSE IF a[Len(a)] = 0 THEN BigTrim(SubSeq(a, 1, Len(a) - 1))
  ELSE a

RECURSIVE BigFromInt(_)
BigFromInt(n) ==
  IF n = 0 THEN <<>> ELSE <<n % LimbBase>> \o BigFromInt(n \div LimbBase)

RECURSIVE BigAddFrom(_, _, _, _)
BigAddFrom(a, b, i, carry) ==
  IF i > Len(a) /\ i > Len(b) THEN (IF carry = 0 THEN <<>> ELSE <<carry>>)
  ELSE LET t == Limb(a, i) + Limb(b, i) + carry
       IN <<t % LimbBase>> \o BigAddFrom(a, b, i + 1, t \div LimbBase)

BigAdd(a, b) == BigAddFrom(a, b, 1, 0)

RECURSIVE BigSubFrom(_, _, _, _)
BigSubFrom(a, b, i, borrow) ==
  IF i > Len(a) THEN <<>>
  ELSE LET t == a[i] - Limb(b, i) - borrow
       IN IF t < 0 THEN <<t + LimbBase>> \o BigSubFrom(a, b, i + 1, 1)
          ELSE <<t>> \o BigSubFrom(a, b, i + 1, 0)

\* a - b for a >= b
BigSub(a, b) == BigTrim(BigSubFrom(a, b, 1, 0))

RECURSIVE BigCmpFrom(_, _, _)
BigCmpFrom(a, b, i) ==
  IF i = 0 THEN 0
  ELSE IF a[i] < b[i] THEN -1
  ELSE IF a[i] > b[i] THEN 1
  ELSE BigCmpFrom(a, b, i - 1)

BigCmp(a, b) ==
  IF Len(a) < Len(b) THEN -1
  ELSE IF Len(a) > Len(b) THEN 1
  ELSE BigCmpFrom(a, b, Len(a))

RECURSIVE BigMulSmallFrom(_, _, _, _)
BigMulSmallFrom(a, d, i, carry) ==
  IF i > Len(a) THEN (IF carry = 0 THEN <<>> ELSE <<carry>>)
  ELSE LET t == a[i] * d + carry
       IN <<t % LimbBase>> \o BigMulSmallFrom(a, d, i + 1, t \div LimbBase)

\* a * d for 0 <= d <= LimbBase
BigMulSmall(a, d) ==
  IF d = 0 THEN <<>> ELSE IF d = 1 THEN a ELSE BigMulSmallFrom(a, d, 1, 0)

RECURSIVE BigShiftLimbs(_, _)
BigShiftLimbs(a, k) ==
  IF a = <<>> \/ k = 0 THEN a ELSE <<0>> \o BigShiftLimbs(a, k - 1)

\* the sum of the limb products a[i] * b[j] with i + j = k + 1, for a of at
\* most four limbs
BigMulColumn(a, b, k) ==
  LET At(i) == IF i <= Len(a) /\ 1 <= k + 1 - i /\ k + 1 - i <= Len(b)
               THEN a[i] * b[k + 1 - i] ELSE 0
  IN At(1) + At(2) + At(3) + At(4)

RECURSIVE BigMulFrom(_, _, _, _)
BigMulFrom(a, b, k, carry) ==
  IF k >= Len(a) + Len(b) THEN (IF carry = 0 THEN <<>> ELSE <<carry>>)
  ELSE LET t == BigMulColumn(a, b, k) + carry
       IN <<t % LimbBase>> \o BigMulFrom(a, b, k + 1, t \div LimbBase)

RECURSIVE BigMulLong(_, _)
BigMulLong(a, b) ==
  IF b = <<>> THEN <<>>
  ELSE BigAdd(BigMulSmall(a, b[1]), BigShiftLimbs(BigMulLong(a, Tail(b)), 1))

\* a * b: column by column when a factor has at most four limbs
BigMul(a, b) ==
  IF a = <<>> \/ b = <<>> THEN <<>>
  ELSE IF Len(a) <= 4 THEN BigMulFrom(a, b, 1, 0)
  ELSE IF Len(b) <= 4 THEN BigMulFrom(b, a, 1, 0)
  ELSE BigMulLong(a, b)

BigShl(a, n) ==
  BigShiftLimbs(BigMulSmall(a, TwoTo(n % LimbBits)), n \div LimbBits)

RECURSIVE BigShrFrom(_, _, _)
BigShrFrom(a, r, i) ==
  IF i > Len(a) THEN <<>>
  ELSE <<(a[i] \div TwoTo(r)) + (Limb(a, i + 1) % TwoTo(r)) * TwoTo(LimbBits - r)>>
       \o BigShrFrom(a, r, i + 1)

BigShr(a, n) ==
  LET k == n \div LimbBits
      r == n % LimbBits
  IN IF k >= Len(a) THEN <<>>
     ELSE IF r = 0 THEN SubSeq(a, k + 1, Len(a))
     ELSE BigTrim(BigShrFrom(a, r, k + 1))

RECURSIVE SmallBitLen(_)
SmallBitLen(n) == IF n = 0 THEN 0 ELSE 1 + SmallBitLen(n \div 2)

BigBitLen(a) ==
  IF a = <<>> THEN 0 ELSE (Len(a) - 1) * LimbBits + SmallBitLen(a[Len(a)])

BigBit(a, n) == (Limb(a, n \div LimbBits + 1) \div TwoTo(n % LimbBits)) % 2

\* the n lowest bits of a are all zero
BigLowBitsZero(a, n) ==
  /\ \A i \in 1..(n \div LimbBits) : Limb(a, i) = 0
  /\ Limb(a, n \div LimbBits + 1) % TwoTo(n % LimbBits) = 0

\* the quotient digit of r by b and what is left of r, from an estimate q of
\* the digit that is not too small and its product prod with b
RECURSIVE BigQuotientDigit(_, _, _, _)
BigQuotientDigit(r, b, q, prod) ==
  IF BigCmp(prod, r) > 0 THEN BigQuotientDigit(r, b, q - 1, BigSub(prod, b))
  ELSE [d |-> q, r |-> BigSub(r, prod)]

BigEstimateOf(top, d) ==
  IF top \div d > LimbBase - 1 THEN LimbBase - 1 ELSE top \div d

BigEstimate(r, b) ==
  IF Len(r) < Len(b) THEN 0
  ELSE IF Len(r) > Len(b)
       THEN BigEstimateOf(r[Len(b) + 1] * LimbBase + r[Len(b)], b[Len(b)])
  ELSE BigEstimateOf(r[Len(b)], b[Len(b)])

RECURSIVE BigDivStep(_, _, _, _)

BigDivStepJoin(step, rest) == [q |-> rest.q \o <<step.d>>, r |-> rest.r]

\* the digit and remainder step of one place, then the places below it
BigDivStepWith(a, b, i, step) ==
  IF Len(step.r) > Len(b) THEN [q |-> <<>>, r |-> step.r]
  ELSE BigDivStepJoin(step, BigDivStep(a, b, i - 1, step.r))

BigDivStepBy(a, b, i, r1, q) ==
  BigDivStepWith(a, b, i,
                 IF q = 0 THEN [d |-> 0, r |-> r1]
                 ELSE BigQuotientDigit(r1, b, q, BigMulSmall(b, q)))

BigDivStepOn(a, b, i, r1) == BigDivStepBy(a, b, i, r1, BigEstimate(r1, b))

BigDivStep(a, b, i, r) ==
  IF i = 0 THEN [q |-> <<>>, r |-> r]
  ELSE BigDivStepOn(a, b, i, BigTrim(<<a[i]>> \o r))

BigDivModResult(res, s) == [q |-> BigTrim(res.q), r |-> BigShr(res.r, s)]

BigDivModOf(num, den, s) ==
  BigDivModResult(BigDivStep(num, den, Len(num), <<>>), s)

BigDivModBy(a, b, s) == BigDivModOf(BigShl(a, s), BigShl(b, s), s)

\* quotient and remainder of a by b > 0 (long division on a divisor
\* shifted to fill its top limb)
BigDivMod(a, b) == BigDivModBy(a, b, LimbBits - SmallBitLen(b[Len(b)]))

RECURSIVE SmallSqrtFrom(_, _, _)
SmallSqrtFrom(x, lo, hi) ==
  IF lo >= hi THEN lo
  ELSE LET mid == (lo + hi + 1) \div 2
       IN IF mid * mid <= x THEN SmallSqrtFrom(x, mid, hi)
          ELSE SmallSqrtFrom(x, lo, mid - 1)

\* the last step of a root with remainder: a root s that may be one too
\* large, with the remainder r it leaves
SmallSqrtRemFix(s, r) ==
  IF r < 0 THEN [s |-> s - 1, r |-> r + 2 * s - 1] ELSE [s |-> s, r |-> r]

\* the root s1 of the upper two limbs extended by the digit q, the quotient
\* of num by 2 * s1
SmallSqrtRemDigit(n, s1, num, q) ==
  SmallSqrtRemFix(s1 * LimbBase + q,
                  (num % (2 * s1)) * LimbBase + n[5] - q * q)

SmallSqrtRemFrom(n, s1, num) == SmallSqrtRemDigit(n, s1, num, num \div (2 * s1))

SmallSqrtRemOf(n, hi, s1) ==
  SmallSqrtRemFrom(n, s1, (hi - s1 * s1) * LimbBase + n[6])

SmallSqrtRem(n, hi) == SmallSqrtRemOf(n, hi, SmallSqrtFrom(hi, 0, LimbBase - 1))

\* root and remainder of the upper four limbs of an eight-limb n whose top
\* two bits are not both zero: the root of the upper two limbs, then one
\* division for the lower half of the root
BigSqrtRemHigh(n) == SmallSqrtRem(n, n[8] * LimbBase + n[7])

\* a root s of n that may be one too large, where s * s = n + qq - rest
BigSqrtFix(s, rest, qq) ==
  IF BigCmp(rest, qq) >= 0 THEN [s |-> s, exact |-> rest = qq]
  ELSE [s |-> BigSub(s, <<1>>),
        exact |-> BigAdd(rest, BigSub(BigMulSmall(s, 2), <<1>>)) = qq]

\* the root h.s of the upper half extended by the quotient qr.q
BigSqrtLow(n, h, qr) ==
  BigSqrtFix(BigAdd(BigShiftLimbs(BigFromInt(h.s), 2), qr.q),
             BigAdd(BigShiftLimbs(qr.r, 2), BigTrim(<<n[1], n[2]>>)),
             BigMul(qr.q, qr.q))

BigSqrtFrom(n, h) ==
  BigSqrtLow(n, h,
             BigDivMod(BigAdd(BigShiftLimbs(BigFromInt(h.r), 2),
                              BigTrim(<<n[3], n[4]>>)),
                       BigFromInt(2 * h.s)))

\* floor of the square root of such an n, and whether n is its square
BigSqrt(n) == BigSqrtFrom(n, BigSqrtRemHigh(n))

(***************************************************************************)
(* A double is NaN, an infinity, or s * m * 2^e with s the sign, m the     *)
(* significand (53 bits for a normal number, fewer for a subnormal one,    *)
(* whose e is -1074); 0 and -0 have no limb in m.  Every operation rounds  *)
(* its exact result to nearest, ties to even, as the hardware does.        *)
(***************************************************************************)
F64NaN == [k |-> "nan", s |-> 0, m |-> <<>>, e |-> 0]

F64Zero == [k |-> "num", s |-> 1, m |-> <<>>, e |-> 0]

F64NegZero == [k |-> "num", s |-> -1, m |-> <<>>, e |-> 0]

\* 0 or -0
F64ZeroOf(s) == IF s < 0 THEN F64NegZero ELSE F64Zero

F64IsZero(a) == a.k = "num" /\ a.m = <<>>

F64Inf(s) == [k |-> "inf", s |-> s, m |-> <<>>, e |-> 0]

F64PackAt(s, m, e) ==
  IF e + 53 > 1024 THEN F64Inf(s) ELSE [k |-> "num", s |-> s, m |-> m, e |-> e]

F64PackLen(s, m, e, over) ==
  F64PackAt(s, IF over THEN BigShr(m, 1) ELSE m, IF over THEN e + 1 ELSE e)

F64Pack(s, m, e) ==
  IF m = <<>> THEN F64ZeroOf(s) ELSE F64PackLen(s, m, e, BigBitLen(m) > 53)

\* round to nearest, ties to even: the bit below the last kept one is set
\* and either a lower bit is set or the last kept bit is odd
F64RoundUp(n, sh, q) ==
  BigBit(n, sh - 1) = 1 /\ (~BigLowBitsZero(n, sh - 1) \/ BigBit(q, 0) = 1)

F64RoundQuotient(n, sh, q) ==
  IF F64RoundUp(n, sh, q) THEN BigAdd(q, <<1>>) ELSE q

F64RoundAt(s, n, e, lsb) ==
  F64Pack(s,
          IF lsb <= e THEN BigShl(n, e - lsb)
          ELSE F64RoundQuotient(n, lsb - e, BigShr(n, lsb - e)),
          lsb)

F64RoundTop(s, n, e, top) ==
  F64RoundAt(s, n, e, IF top < -1074 THEN -1074 ELSE top)

\* the double nearest to s * n * 2^e
F64Round(s, n, e) ==
  IF n = <<>> THEN F64ZeroOf(s)
  ELSE F64RoundTop(s, n, e, e + BigBitLen(n) - 53)

F64FromInt(n) ==
  IF n < 0 THEN F64Round(-1, BigFromInt(-n), 0)
  ELSE F64Round(1, BigFromInt(n), 0)

F64Neg(a) == [a EXCEPT !.s = -a.s]

F64Abs(a) == [a EXCEPT !.s = IF a.k = "nan" THEN 0 ELSE 1]

F64IsNaN(a) == a.k = "nan"

\* -1, 0, 1 as |a| is below, equal to, above |b| (neither is NaN)
F64MagCmp(a, b) ==
  IF a.k = "inf" THEN (IF b.k = "inf" THEN 0 ELSE 1)
  ELSE IF b.k = "inf" THEN -1
  ELSE IF a.m = <<>> THEN (IF b.m = <<>> THEN 0 ELSE -1)
  ELSE IF b.m = <<>> THEN 1
  ELSE IF a.e < b.e THEN -1
  ELSE IF a.e > b.e THEN 1
  ELSE BigCmp(a.m, b.m)

F64Cmp(a, b) ==
  IF F64IsZero(a) /\ F64IsZero(b) THEN 0
  ELSE IF a.s < b.s THEN -1
  ELSE IF a.s > b.s THEN 1
  ELSE a.s * F64MagCmp(a, b)

\* a < b, a <= b, a > b, a === b: false whenever an operand is NaN
F64Lt(a, b) == ~F64IsNaN(a) /\ ~F64IsNaN(b) /\ F64Cmp(a, b) < 0

F64Le(a, b) == ~F64IsNaN(a) /\ ~F64IsNaN(b) /\ F64Cmp(a, b) <= 0

F64Gt(a, b) == F64Lt(b, a)

F64Eq(a, b) == ~F64IsNaN(a) /\ ~F64IsNaN(b) /\ F64Cmp(a, b) = 0

\* a sum that is exactly 0 is 0, not -0, unless both terms are negative
F64AddAligned(a, b, ma, mb, eb) ==
  IF a.s = b.s THEN F64Round(a.s, BigAdd(ma, mb), eb)
  ELSE IF ma = mb THEN F64Zero
  ELSE F64Round(a.s, BigSub(ma, mb), eb)

F64AddTo(a, b, mb, eb) == F64AddAligned(a, b, BigShl(a.m, a.e - eb), mb, eb)

\* the sum of two finite non-zero doubles, |a| >= |b|; a b far below a
\* counts as one unit three bits below a's last
F64AddFar(a, b, far) ==
  F64AddTo(a, b, IF far THEN <<1>> ELSE b.m, IF far THEN a.e - 3 ELSE b.e)

F64AddOrdered(a, b) == F64AddFar(a, b, a.e - b.e > 60)

F64AddBy(a, b, aFirst) ==
  F64AddOrdered(IF aFirst THEN a ELSE b, IF aFirst THEN b ELSE a)

F64Add(a, b) ==
  IF F64IsNaN(a) \/ F64IsNaN(b) THEN F64NaN
  ELSE IF a.k = "inf" THEN (IF b.k = "inf" /\ b.s # a.s THEN F64NaN ELSE a)
  ELSE IF b.k = "inf" THEN b
  ELSE IF F64IsZero(a) THEN (IF F64IsZero(b) /\ a.s # b.s THEN F64Zero ELSE b)
  ELSE IF F64IsZero(b) THEN a
  ELSE F64AddBy(a, b, F64MagCmp(a, b) >= 0)

F64Sub(a, b) == F64Add(a, F64Neg(b))

F64Mul(a, b) ==
  IF F64IsNaN(a) \/ F64IsNaN(b) THEN F64NaN
  ELSE IF a.k = "inf" \/ b.k = "inf"
       THEN (IF F64IsZero(a) \/ F64IsZero(b) THEN F64NaN
             ELSE F64Inf(a.s * b.s))
  ELSE IF a.m = <<>> \/ b.m = <<>> THEN F64ZeroOf(a.s * b.s)
  ELSE F64Round(a.s * b.s, BigMul(a.m, b.m), a.e + b.e)

\* the quotient with one more bit that says whether a remainder is left
F64DivRound(a, b, sh, qr) ==
  F64Round(a.s * b.s,
           BigAdd(BigShl(qr.q, 1), IF qr.r = <<>> THEN <<>> ELSE <<1>>),
           a.e - sh - b.e - 1)

F64DivShifted(a, b, sh) == F64DivRound(a, b, sh, BigDivMod(BigShl(a.m, sh), b.m))

F64Div(a, b) ==
  IF F64IsNaN(a) \/ F64IsNaN(b) THEN F64NaN
  ELSE IF a.k = "inf" THEN (IF b.k = "inf" THEN F64NaN ELSE F64Inf(a.s * b.s))
  ELSE IF b.k = "inf" THEN F64ZeroOf(a.s * b.s)
  ELSE IF b.m = <<>> THEN (IF a.m = <<>> THEN F64NaN ELSE F64Inf(a.s * b.s))
  ELSE IF a.m = <<>> THEN F64ZeroOf(a.s * b.s)
  ELSE F64DivShifted(a, b, BigBitLen(b.m) + 55 - BigBitLen(a.m))

\* the root of a.m * 2^sh, rounded
F64SqrtRound(a, sh, root) ==
  F64Round(1, BigAdd(BigShl(root.s, 1), IF root.exact THEN <<>> ELSE <<1>>),
           (a.e - sh) \div 2 - 1)

F64SqrtShifted(a, sh) == F64SqrtRound(a, sh, BigSqrt(BigShl(a.m, sh)))

\* the significand shifted to eight limbs, by base or one more so that the
\* exponent left is even
F64SqrtFrom(a, base) == F64SqrtShifted(a, base + ((a.e - base) % 2))

\* Math.sqrt
F64Sqrt(a) ==
  IF F64IsNaN(a) THEN F64NaN
  ELSE IF F64IsZero(a) THEN a
  ELSE IF a.s < 0 THEN F64NaN
  ELSE IF a.k = "inf" THEN a
  ELSE F64SqrtFrom(a, 8 * LimbBits - 1 - BigBitLen(a.m))

\* the positive double m * 2^e, m of 53 bits
Double(m, e) == [k |-> "num", s |-> 1, m |-> m, e |-> e]

F64One == Double(<<0, 0, 0, 1024>>, -52)
F64Half == Double(<<0, 0, 0, 1024>>, -53)

F64Quarter == Double(<<0, 0, 0, 1024>>, -54)

F64Two == Double(<<0, 0, 0, 1024>>, -51)

F64Three == Double(<<0, 0, 0, 1536>>, -51)

F64OneAndHalf == Double(<<0, 0, 0, 1536>>, -52)

\* 10^k as a double, exact for k <= 22
RECURSIVE F64Ten(_)
F64Ten(k) ==
  IF k <= 9 THEN F64FromInt(Pow10(k))
  ELSE F64Mul(F64FromInt(Pow10(9)), F64Ten(k - 9))

\* the double a numeric literal m / 10^k denotes, k <= 22
F64Dec(m, k) == F64Div(F64FromInt(m), F64Ten(k))

RECURSIVE Pow2(_)
Pow2(n) == IF n = 0 THEN 1 ELSE 2 * Pow2(n - 1)

RECURSIVE BigToInt(_)
BigToInt(a) == IF a = <<>> THEN 0 ELSE Head(a) + LimbBase * BigToInt(Tail(a))

\* the integer part of a double of small magnitude
F64ToInt(a) ==
  a.s * BigToInt(IF a.e >= 0 THEN BigShl(a.m, a.e) ELSE BigShr(a.m, -a.e))

\* a * 2^n
F64Scale(a, n) == IF a.k = "num" THEN F64Round(a.s, a.m, a.e + n) ELSE a

\* Math.floor
MathFloorOf(a, q) ==
  IF a.s > 0 THEN F64Round(1, q, 0) ELSE F64Round(-1, BigAdd(q, <<1>>), 0)

MathFloor(a) ==
  IF a.k # "num" \/ a.m = <<>> \/ a.e >= 0 THEN a
  ELSE IF BigLowBitsZero(a.m, -a.e) THEN a
  ELSE MathFloorOf(a, BigShr(a.m, -a.e))

\* Math.max and Math.min: NaN if an argument is NaN, and -0 is below 0
MathMax(a, b) ==
  IF F64IsNaN(a) \/ F64IsNaN(b) THEN F64NaN
  ELSE IF F64Lt(a, b) THEN b
  ELSE IF F64Lt(b, a) THEN a
  ELSE IF a.s > 0 THEN a ELSE b

MathMin(a, b) ==
  IF F64IsNaN(a) \/ F64IsNaN(b) THEN F64NaN
  ELSE IF F64Lt(a, b) THEN a
  ELSE IF F64Lt(b, a) THEN b
  ELSE IF a.s < 0 THEN a ELSE b

(***************************************************************************)
(* Math.exp and Math.pow are the engine's, which are fdlibm's e_exp.c and   *)
(* e_pow.c; they read and write the two 32-bit words of a double.          *)
(***************************************************************************)
\* the high word of a without its sign bit
F64HighWord(a) ==
  IF a.k = "inf" THEN 2146435072
  ELSE IF a.k = "nan" THEN 2146959360
  ELSE IF a.m = <<>> THEN 0
  ELSE (a.e + 1074) * 1048576 + BigToInt(BigShr(a.m, 32))

\* a with its low word set to 0
F64ClearLowWord(a) ==
  IF a.k # "num" THEN a ELSE F64Pack(a.s, BigShl(BigShr(a.m, 32), 32), a.e)

\* the double of sign s whose high word is hi and whose low word is 0
F64FromHighWord(s, hi) ==
  F64Pack(s,
          BigShl(BigFromInt(IF hi < 1048576 THEN hi ELSE 1048576 + (hi % 1048576)), 32),
          IF hi < 1048576 THEN -1074 ELSE hi \div 1048576 - 1075)

ExpConstants ==
  [one |-> F64One, two |-> F64Two,
   P1 |-> Double(<<5438, 5461, 5461, 1365>>, -55),
   P2 |-> F64Neg(Double(<<15763, 6906, 5825, 1456>>, -61)),
   P3 |-> Double(<<7724, 15511, 9898, 1109>>, -66),
   P4 |-> F64Neg(Double(<<11249, 5961, 5148, 1775>>, -72)),
   P5 |-> Double(<<9424, 2810, 13975, 1421>>, -77),
   ln2HI |-> Double(<<0, 15232, 9263, 1419>>, -53),
   ln2LO |-> Double(<<15478, 5604, 7923, 1678>>, -85),
   invln2 |-> Double(<<766, 5294, 5238, 1477>>, -52)]

ExpOThreshold == Double(<<14831, 15336, 9263, 1419>>, -43)

ExpUThreshold == F64Neg(Double(<<12369, 5300, 4365, 1490>>, -43))

MathE == Double(<<5993, 11345, 12456, 1391>>, -51)

PowConstants ==
  [one |-> F64One, two |-> F64Two, three |-> F64Three, half |-> F64Half,
   quarter |-> F64Quarter, third |-> Double(<<5461, 5461, 5461, 1365>>, -54),
   L1 |-> Double(<<13059, 3276, 13107, 1228>>, -53),
   L2 |-> Double(<<11263, 11710, 7021, 1755>>, -54),
   L3 |-> Double(<<9805, 1596, 5461, 1365>>, -54),
   L4 |-> Double(<<257, 9333, 1546, 1117>>, -54),
   L5 |-> Double(<<7013, 3879, 9385, 1889>>, -55),
   L6 |-> Double(<<3823, 10517, 8836, 1695>>, -55),
   P1 |-> ExpConstants.P1, P2 |-> ExpConstants.P2, P3 |-> ExpConstants.P3,
   P4 |-> ExpConstants.P4, P5 |-> ExpConstants.P5,
   lg2 |-> Double(<<14831, 15336, 9263, 1419>>, -53),
   lg2_h |-> Double(<<0, 0, 9264, 1419>>, -53),
   lg2_l |-> F64Neg(Double(<<11321, 12961, 1552, 1047>>, -81)),
   ovt |-> Double(<<766, 5294, 5238, 1477>>, -106),
   cp |-> Double(<<1021, 12520, 12445, 1969>>, -53),
   cp_h |-> Double(<<0, 0, 12446, 1969>>, -53),
   cp_l |-> F64Neg(Double(<<501, 4460, 15873, 1931>>, -80)),
   ivln2 |-> Double(<<766, 5294, 5238, 1477>>, -52),
   ivln2_h |-> Double(<<0, 0, 5238, 1477>>, -52),
   ivln2_l |-> Double(<<8004, 8567, 8383, 1323>>, -78)]

PowDpH == Double(<<0, 0, 52, 1198>>, -53)

PowDpL == Double(<<4102, 3903, 7860, 1855>>, -79)

\* log2(ax) as t1 + t2, ax in [1, 2) or [0.75, 1.5) and bp 1 or 1.5
PowLogProgram == <<
  \* u = ax - bp
  <<"u", "-", "ax", "bp">>,
  \* v = one / (ax + bp)
  <<"_1", "+", "ax", "bp">>,
  <<"v", "/", "one", "_1">>,
  \* ss = u * v
  <<"ss", "*", "u", "v">>,
  \* s_h = low(ss)
  <<"s_h", "low", "ss", "ss">>,
  \* t_l = ax - (t_h - bp)
  <<"_2", "-", "t_h", "bp">>,
  <<"t_l", "-", "ax", "_2">>,
  \* s_l = v * ((u - s_h * t_h) - s_h * t_l)
  <<"_5", "*", "s_h", "t_h">>,
  <<"_4", "-", "u", "_5">>,
  <<"_6", "*", "s_h", "t_l">>,
  <<"_3", "-", "_4", "_6">>,
  <<"s_l", "*", "v", "_3">>,
  \* s2 = ss * ss
  <<"s2", "*", "ss", "ss">>,
  \* r = s2 * s2 * (L1 + s2 * (L2 + s2 * (L3 + s2 * (L4 + s2 * (L5 + s2 * L6)))))
  <<"_7", "*", "s2", "s2">>,
  <<"_17", "*", "s2", "L6">>,
  <<"_16", "+", "L5", "_17">>,
  <<"_15", "*", "s2", "_16">>,
  <<"_14", "+", "L4", "_15">>,
  <<"_13", "*", "s2", "_14">>,
  <<"_12", "+", "L3", "_13">>,
  <<"_11", "*", "s2", "_12">>,
  <<"_10", "+", "L2", "_11">>,
  <<"_9", "*", "s2", "_10">>,
  <<"_8", "+", "L1", "_9">>,
  <<"r", "*", "_7", "_8">>,
  \* r = r + s_l * (s_h + ss)
  <<"_19", "+", "s_h", "ss">>,
  <<"_18", "*", "s_l", "_19">>,
  <<"r", "+", "r", "_18">>,
  \* s2 = s_h * s_h
  <<"s2", "*", "s_h", "s_h">>,
  \* t_h = low(three + s2 + r)
  <<"_21", "+", "three", "s2">>,
  <<"_20", "+", "_21", "r">>,
  <<"t_h", "low", "_20", "_20">>,
  \* t_l = r - ((t_h - three) - s2)
  <<"_23", "-", "t_h", "three">>,
  <<"_22", "-", "_23", "s2">>,
  <<"t_l", "-", "r", "_22">>,
  \* u = s_h * t_h
  <<"u", "*", "s_h", "t_h">>,
  \* v = s_l * t_h + t_l * ss
  <<"_24", "*", "s_l", "t_h">>,
  <<"_25", "*", "t_l", "ss">>,
  <<"v", "+", "_24", "_25">>,
  \* p_h = low(u + v)
  <<"_26", "+", "u", "v">>,
  <<"p_h", "low", "_26", "_26">>,
  \* p_l = v - (p_h - u)
  <<"_27", "-", "p_h", "u">>,
  <<"p_l", "-", "v", "_27">>,
  \* z_h = cp_h * p_h
  <<"z_h", "*", "cp_h", "p_h">>,
  \* z_l = cp_l * p_h + p_l * cp + dp_l
  <<"_29", "*", "cp_l", "p_h">>,
  <<"_30", "*", "p_l", "cp">>,
  <<"_28", "+", "_29", "_30">>,
  <<"z_l", "+", "_28", "dp_l">>,
  \* t1 = low(((z_h + z_l) + dp_h) + t)
  <<"_33", "+", "z_h", "z_l">>,
  <<"_32", "+", "_33", "dp_h">>,
  <<"_31", "+", "_32", "t">>,
  <<"t1", "low", "_31", "_31">>,
  \* t2 = z_l - (((t1 - t) - dp_h) - z_h)
  <<"_36", "-", "t1", "t">>,
  <<"_35", "-", "_36", "dp_h">>,
  <<"_34", "-", "_35", "z_h">>,
  <<"t2", "-", "z_l", "_34">>
>>

\* log2(ax) as t1 + t2 for ax within 2^-20 of 1
PowNearOneProgram == <<
  \* t = ax - one
  <<"t", "-", "ax", "one">>,
  \* w = (t * t) * (half - t * (third - t * quarter))
  <<"_1", "*", "t", "t">>,
  <<"_5", "*", "t", "quarter">>,
  <<"_4", "-", "third", "_5">>,
  <<"_3", "*", "t", "_4">>,
  <<"_2", "-", "half", "_3">>,
  <<"w", "*", "_1", "_2">>,
  \* u = ivln2_h * t
  <<"u", "*", "ivln2_h", "t">>,
  \* v = t * ivln2_l - w * ivln2
  <<"_6", "*", "t", "ivln2_l">>,
  <<"_7", "*", "w", "ivln2">>,
  <<"v", "-", "_6", "_7">>,
  \* t1 = low(u + v)
  <<"_8", "+", "u", "v">>,
  <<"t1", "low", "_8", "_8">>,
  \* t2 = v - (t1 - u)
  <<"_9", "-", "t1", "u">>,
  <<"t2", "-", "v", "_9">>
>>

\* z = y * (t1 + t2) and 2^(z - [z + 0.5])
PowExp2Program == <<
  \* y1 = low(y)
  <<"y1", "low", "y", "y">>,
  \* p_l = (y - y1) * t1 + y * t2
  <<"_2", "-", "y", "y1">>,
  <<"_1", "*", "_2", "t1">>,
  <<"_3", "*", "y", "t2">>,
  <<"p_l", "+", "_1", "_3">>,
  \* p_h = y1 * t1
  <<"p_h", "*", "y1", "t1">>,
  \* z = p_l + p_h
  <<"z", "+", "p_l", "p_h">>,
  \* over = p_l + ovt
  <<"over", "+", "p_l", "ovt">>,
  \* under = z - p_h
  <<"under", "-", "z", "p_h">>,
  \* t = nearest(z)
  <<"t", "nearest", "z", "z">>,
  \* p_h = p_h - t
  <<"p_h", "-", "p_h", "t">>,
  \* t = low(p_l + p_h)
  <<"_4", "+", "p_l", "p_h">>,
  <<"t", "low", "_4", "_4">>,
  \* u = t * lg2_h
  <<"u", "*", "t", "lg2_h">>,
  \* v = (p_l - (t - p_h)) * lg2 + t * lg2_l
  <<"_7", "-", "t", "p_h">>,
  <<"_6", "-", "p_l", "_7">>,
  <<"_5", "*", "_6", "lg2">>,
  <<"_8", "*", "t", "lg2_l">>,
  <<"v", "+", "_5", "_8">>,
  \* zz = u + v
  <<"zz", "+", "u", "v">>,
  \* w = v - (zz - u)
  <<"_9", "-", "zz", "u">>,
  <<"w", "-", "v", "_9">>,
  \* t = zz * zz
  <<"t", "*", "zz", "zz">>,
  \* t1 = zz - t * (P1 + t * (P2 + t * (P3 + t * (P4 + t * P5))))
  <<"_18", "*", "t", "P5">>,
  <<"_17", "+", "P4", "_18">>,
  <<"_16", "*", "t", "_17">>,
  <<"_15", "+", "P3", "_16">>,
  <<"_14", "*", "t", "_15">>,
  <<"_13", "+", "P2", "_14">>,
  <<"_12", "*", "t", "_13">>,
  <<"_11", "+", "P1", "_12">>,
  <<"_10", "*", "t", "_11">>,
  <<"t1", "-", "zz", "_10">>,
  \* r = (zz * t1) / (t1 - two) - (w + zz * w)
  <<"_20", "*", "zz", "t1">>,
  <<"_21", "-", "t1", "two">>,
  <<"_19", "/", "_20", "_21">>,
  <<"_23", "*", "zz", "w">>,
  <<"_22", "+", "w", "_23">>,
  <<"r", "-", "_19", "_22">>,
  \* res = one - (r - zz)
  <<"_24", "-", "r", "zz">>,
  <<"res", "-", "one", "_24">>
>>

\* x = hi - lo with hi - lo = x - k * ln2, k = t
ExpFarProgram == <<
  \* kd = trunc(invln2 * x + halF)
  <<"_2", "*", "invln2", "x">>,
  <<"_1", "+", "_2", "halF">>,
  <<"kd", "trunc", "_1", "_1">>,
  \* hi = x - kd * ln2HI
  <<"_3", "*", "kd", "ln2HI">>,
  <<"hi", "-", "x", "_3">>,
  \* lo = kd * ln2LO
  <<"lo", "*", "kd", "ln2LO">>,
  \* x = hi - lo
  <<"x", "-", "hi", "lo">>
>>

\* x = hi - lo with hi - lo = x -+ ln2
ExpNearProgram == <<
  \* hi = x - ln2HIs
  <<"hi", "-", "x", "ln2HIs">>,
  \* x = hi - lo
  <<"x", "-", "hi", "lo">>
>>

\* exp(x) for x in the primary range
ExpPrimaryProgram == <<
  \* t = x * x
  <<"t", "*", "x", "x">>,
  \* c = x - t * (P1 + t * (P2 + t * (P3 + t * (P4 + t * P5))))
  <<"_9", "*", "t", "P5">>,
  <<"_8", "+", "P4", "_9">>,
  <<"_7", "*", "t", "_8">>,
  <<"_6", "+", "P3", "_7">>,
  <<"_5", "*", "t", "_6">>,
  <<"_4", "+", "P2", "_5">>,
  <<"_3", "*", "t", "_4">>,
  <<"_2", "+", "P1", "_3">>,
  <<"_1", "*", "t", "_2">>,
  <<"c", "-", "x", "_1">>,
  \* res = one - ((x * c) / (c - two) - x)
  <<"_12", "*", "x", "c">>,
  <<"_13", "-", "c", "two">>,
  <<"_11", "/", "_12", "_13">>,
  <<"_10", "-", "_11", "x">>,
  <<"res", "-", "one", "_10">>
>>

\* exp(hi - lo) for x = hi - lo in the primary range
ExpReducedProgram == <<
  \* t = x * x
  <<"t", "*", "x", "x">>,
  \* c = x - t * (P1 + t * (P2 + t * (P3 + t * (P4 + t * P5))))
  <<"_9", "*", "t", "P5">>,
  <<"_8", "+", "P4", "_9">>,
  <<"_7", "*", "t", "_8">>,
  <<"_6", "+", "P3", "_7">>,
  <<"_5", "*", "t", "_6">>,
  <<"_4", "+", "P2", "_5">>,
  <<"_3", "*", "t", "_4">>,
  <<"_2", "+", "P1", "_3">>,
  <<"_1", "*", "t", "_2">>,
  <<"c", "-", "x", "_1">>,
  \* res = one - ((lo - (x * c) / (two - c)) - hi)
  <<"_13", "*", "x", "c">>,
  <<"_14", "-", "two", "c">>,
  <<"_12", "/", "_13", "_14">>,
  <<"_11", "-", "lo", "_12">>,
  <<"_10", "-", "_11", "hi">>,
  <<"res", "-", "one", "_10">>
>>

\* y is an integer: 0 if it is not, 1 if it is odd, 2 if it is even
PowYIsInt(y, iy, k) ==
  IF iy >= 1128267776 THEN 2
  ELSE IF iy < 1072693248 THEN 0
  ELSE IF BigLowBitsZero(y.m, 52 - k) THEN 2 - BigBit(y.m, 52 - k)
  ELSE 0

\* 2^(p_h + p_l) overflows or underflows
PowOverflows(regs, i) ==
  /\ regs.z.s > 0
  /\ i >= 1083179008
  /\ \/ i # 1083179008
     \/ ~BigLowBitsZero(regs.z.m, 32)
     \/ F64Gt(regs.over, regs.under)

PowUnderflows(regs, i) ==
  /\ regs.z.s < 0
  /\ i >= 1083231232
  /\ \/ i # 1083231232
     \/ ~BigLowBitsZero(regs.z.m, 32)
     \/ F64Le(regs.p_l, regs.under)

\* the high word of z with 0.5 added at the place of its exponent k
PowRounded(i, k) == i + Pow2(19 - k)

\* n = [z + 0.5] from that high word, nm
PowNearestInt(s, nm, k) == s * ((1048576 + (nm % 1048576)) \div Pow2(20 - k))

PowNearestOf(s, nm, k) == F64FromHighWord(s, nm - (nm % Pow2(20 - k)))

\* [z + 0.5] as a double, 0 when |z| <= 0.5
PowNearest(z, i) ==
  IF i > 1071644672 /\ i < 1083231232 + 1048576
  THEN PowNearestOf(z.s, PowRounded(i, i \div 1048576 - 1023),
                    PowRounded(i, i \div 1048576 - 1023) \div 1048576 - 1023)
  ELSE F64Zero

PowScaleBy(z, i) ==
  IF i > 1071644672
  THEN PowNearestInt(z.s, PowRounded(i, i \div 1048576 - 1023),
                     PowRounded(i, i \div 1048576 - 1023) \div 1048576 - 1023)
  ELSE 0

\* what one instruction computes: a sum, a difference, a product, a
\* quotient, its operand without its low word, its integer part, or the
\* integer nearest to it
Operate(op, a, b) ==
  CASE op = "+" -> F64Add(a, b)
    [] op = "-" -> F64Sub(a, b)
    [] op = "*" -> F64Mul(a, b)
    [] op = "/" -> F64Div(a, b)
    [] op = "low" -> F64ClearLowWord(a)
    [] op = "trunc" -> F64FromInt(F64ToInt(a))
    [] op = "nearest" -> PowNearest(a, F64HighWord(a))

\* the registers after the instruction <<destination, op, operand, operand>>
Execute(ins, regs) == (ins[1] :> Operate(ins[2], regs[ins[3]], regs[ins[4]])) @@ regs

\* the registers after the instructions first..last of a straight-line
\* program: the first half of them is run, and then the other half on the
\* registers they leave
RECURSIVE RunFrom(_, _, _, _)
RunOn(program, first, last, regs) ==
  IF DOMAIN regs = {} THEN regs ELSE RunFrom(program, first, last, regs)

RunFrom(program, first, last, regs) ==
  IF first > last THEN regs
  ELSE IF first = last THEN Execute(program[first], regs)
  ELSE RunOn(program, (first + last) \div 2 + 1, last,
             RunFrom(program, first, (first + last) \div 2, regs))

Run(program, regs) == RunFrom(program, 1, Len(program), regs)

\* exp(x) = 2^k * exp(x - k * ln2), k = 0 in the primary range
ExpScaled(regs) == F64Scale(regs.res, F64ToInt(regs.kd))

ExpProgram(hx) ==
  IF hx <= 1071001154 THEN ExpPrimaryProgram
  ELSE IF hx < 1072734898 THEN ExpNearProgram \o ExpReducedProgram
  ELSE ExpFarProgram \o ExpReducedProgram

ExpRegisters(x, hx) ==
  [x |-> x,
   kd |-> IF hx <= 1071001154 THEN F64Zero ELSE F64FromInt(x.s),
   halF |-> IF x.s > 0 THEN F64Half ELSE F64Neg(F64Half),
   ln2HIs |-> IF x.s > 0 THEN ExpConstants.ln2HI ELSE F64Neg(ExpConstants.ln2HI),
   lo |-> IF x.s > 0 THEN ExpConstants.ln2LO ELSE F64Neg(ExpConstants.ln2LO)]
  @@ ExpConstants

ExpByHighWord(x, hx) ==
  IF hx > 1071001154 /\ hx < 1072734898 /\ F64Eq(x, F64One) THEN MathE
  ELSE IF hx < 1043333120 THEN F64Add(F64One, x)
  ELSE ExpScaled(Run(ExpProgram(hx), ExpRegisters(x, hx)))

MathExp(x) ==
  IF F64IsNaN(x) THEN F64NaN
  ELSE IF x.k = "inf" THEN (IF x.s > 0 THEN x ELSE F64Zero)
  ELSE IF F64Gt(x, ExpOThreshold) THEN F64Inf(1)
  ELSE IF F64Lt(x, ExpUThreshold) THEN F64Zero
  ELSE ExpByHighWord(x, F64HighWord(x))

PowExp2Result(regs, i) ==
  IF PowOverflows(regs, i) THEN F64Inf(1)
  ELSE IF PowUnderflows(regs, i) THEN F64Zero
  ELSE F64Scale(regs.res, PowScaleBy(regs.z, i))

PowExp2(regs) == PowExp2Result(regs, F64HighWord(regs.z))

\* ax scaled into [1, 2) or, above sqrt(3), into [0.5, 1), with the
\* interval k, the exponent n and t_h = ax + bp without its low bits
PowLogRegisters(y, ax, n, j) ==
  [y |-> y,
   ax |-> [ax EXCEPT !.e = IF j < 767610 THEN -52 ELSE -53],
   bp |-> IF j <= 235662 \/ j >= 767610 THEN F64One ELSE F64OneAndHalf,
   dp_h |-> IF j <= 235662 \/ j >= 767610 THEN F64Zero ELSE PowDpH,
   dp_l |-> IF j <= 235662 \/ j >= 767610 THEN F64Zero ELSE PowDpL,
   t_h |-> F64FromHighWord(1,
             (j + (IF j < 767610 THEN 1072693248 ELSE 1071644672)) \div 2
             + 536870912 + 524288
             + (IF j <= 235662 \/ j >= 767610 THEN 0 ELSE 262144)),
   t |-> F64FromInt(IF j < 767610 THEN n ELSE n + 1)] @@ PowConstants

PowLogNormal(y, ax, n, ix) ==
  PowLogRegisters(y, ax, n + ix \div 1048576 - 1023, ix % 1048576)

PowLogSubnormal(y, ax) == PowLogNormal(y, ax, -53, F64HighWord(ax))

PowLogOf(ax, y, ix) ==
  IF ix < 1048576
  THEN PowLogSubnormal(y, F64Mul(ax, Double(<<0, 0, 0, 1024>>, 1)))
  ELSE PowLogNormal(y, ax, 0, ix)

\* |y| > 2^31: the power overflows or underflows unless ax is within 2^-20
\* of 1; 1 for overflow, -1 for underflow, 0 for neither
PowHugeExponent(y, ix, iy) ==
  IF iy <= 1105199104 THEN 0
  ELSE IF iy > 1139802112 /\ ix <= 1072693247 THEN (IF y.s < 0 THEN 1 ELSE -1)
  ELSE IF iy > 1139802112 THEN (IF y.s > 0 THEN 1 ELSE -1)
  ELSE IF ix < 1072693247 THEN (IF y.s < 0 THEN 1 ELSE -1)
  ELSE IF ix > 1072693248 THEN (IF y.s > 0 THEN 1 ELSE -1)
  ELSE 0

PowMagnitude(ax, y, ix, iy) ==
  IF PowHugeExponent(y, ix, iy) > 0 THEN F64Inf(1)
  ELSE IF PowHugeExponent(y, ix, iy) < 0 THEN F64Zero
  ELSE PowExp2(Run(IF iy > 1105199104
                   THEN PowNearOneProgram \o PowExp2Program
                   ELSE PowLogProgram \o PowExp2Program,
                   IF iy > 1105199104
                   THEN [ax |-> ax, y |-> y] @@ PowConstants
                   ELSE PowLogOf(ax, y, ix)))

\* x is 0, an infinity, 1 or -1
PowSpecialBaseOf(x, z, yisint) ==
  IF x.s > 0 THEN z
  ELSE IF F64Eq(x, F64Neg(F64One)) /\ yisint = 0 THEN F64NaN
  ELSE IF yisint = 1 THEN F64Neg(z)
  ELSE z

PowSpecialBase(x, y, yisint) ==
  PowSpecialBaseOf(x, IF y.s < 0 THEN F64Div(F64One, F64Abs(x)) ELSE F64Abs(x),
                   yisint)

PowInfiniteExponent(x, y) ==
  IF F64Eq(F64Abs(x), F64One) THEN F64NaN
  ELSE IF F64Gt(F64Abs(x), F64One) THEN (IF y.s > 0 THEN y ELSE F64Zero)
  ELSE IF y.s < 0 THEN F64Neg(y) ELSE F64Zero

PowSigned(x, yisint, z) == IF x.s < 0 /\ yisint = 1 THEN F64Neg(z) ELSE z

PowFinite(x, y, yisint) ==
  IF F64Eq(y, F64One) THEN x
  ELSE IF F64Eq(y, F64Neg(F64One)) THEN F64Div(F64One, x)
  ELSE IF F64Eq(y, F64Two) THEN F64Mul(x, x)
  ELSE IF F64Eq(y, F64Half) /\ x.s > 0 THEN F64Sqrt(x)
  ELSE IF x.k = "inf" \/ x.m = <<>> \/ F64Eq(F64Abs(x), F64One)
  THEN PowSpecialBase(x, y, yisint)
  ELSE IF x.s < 0 /\ yisint = 0 THEN F64NaN
  ELSE PowSigned(x, yisint,
                 PowMagnitude(F64Abs(x), y, F64HighWord(x), F64HighWord(y)))

PowOf(x, y, iy) ==
  PowFinite(x, y, IF x.s < 0 THEN PowYIsInt(y, iy, iy \div 1048576 - 1023) ELSE 0)

\* e_pow.c of fdlibm: a double within a unit in the last place of x^y
PowFdlibm(x, y) ==
  IF F64IsNaN(y) THEN F64NaN
  ELSE IF F64IsZero(y) THEN F64One
  ELSE IF F64IsNaN(x) THEN F64NaN
  ELSE IF y.k = "inf" THEN PowInfiniteExponent(x, y)
  ELSE PowOf(x, y, F64HighWord(y))

(***************************************************************************)
(* Math.pow is implementation-approximated (ECMA-262, Number::exponentiate):*)
(* an engine answers with a double close to x^y, and which one depends on  *)
(* the library the engine was built with.  MathPow(x, y) is the set of the *)
(* answers a call can get: the power itself where it is a double, x * x    *)
(* for y = 2, and otherwise the doubles at most PowUlps units in the last  *)
(* place from the one fdlibm computes.  A function that calls Math.pow     *)
(* takes the answers it gets as its argument pow, a function from the      *)
(* pairs <<x, y>> of its calls to doubles, the same pair having the same   *)
(* answer throughout a call.                                               *)
(***************************************************************************)
\* how far, in units in the last place, the engine's answer may be from
\* fdlibm's
PowUlps == 1

\* the next double away from 0 of a finite a other than 0
F64Away(a) == F64Pack(a.s, BigAdd(a.m, <<1>>), a.e)

\* the next double toward 0 of a finite a other than 0
F64Toward(a) ==
  IF a.e > -1074 /\ BigBitLen(BigSub(a.m, <<1>>)) < 53
  THEN F64Pack(a.s, BigSub(BigShl(a.m, 1), <<1>>), a.e - 1)
  ELSE F64Pack(a.s, BigSub(a.m, <<1>>), a.e)

\* a moved k doubles away from 0, toward 0 for k < 0, no further than 0 or
\* an infinity
RECURSIVE F64Step(_, _)
F64Step(a, k) ==
  IF k = 0 \/ a.k # "num" \/ a.m = <<>> THEN a
  ELSE IF k > 0 THEN F64Step(F64Away(a), k - 1)
  ELSE F64Step(F64Toward(a), k + 1)

\* the doubles at most PowUlps units in the last place from z
F64About(z) ==
  IF z.k = "num" /\ z.m # <<>> THEN {F64Step(z, k) : k \in -PowUlps..PowUlps}
  ELSE {z}

\* whether the finite y is a whole number
F64IsWhole(y) ==
  y.k = "num" /\ (y.m = <<>> \/ y.e >= 0 \/ (-y.e < 53 /\ BigLowBitsZero(y.m, -y.e)))

\* the zero bits below the lowest set bit of m, m # 0
RECURSIVE BigTrailingZeros(_, _)
BigTrailingZeros(m, n) ==
  IF BigBit(m, n) = 1 THEN n ELSE BigTrailingZeros(m, n + 1)

\* a^n for n >= 0
RECURSIVE BigPow(_, _)
BigPow(a, n) == IF n = 0 \/ a = <<1>> THEN <<1>> ELSE BigMul(a, BigPow(a, n - 1))

\* the power of x = odd * 2^(x.e + tz) for a whole y = n > 0 when it fits a
\* double, <<>> when it does not
PowExactOf(x, n, odd, e) ==
  IF n * (BigBitLen(odd) - 1) >= 53 \/ BigBitLen(BigPow(odd, n)) > 53
       \/ e * n < -1074 \/ e * n + BigBitLen(BigPow(odd, n)) > 1024
  THEN <<>>
  ELSE <<F64Round(IF x.s < 0 /\ n % 2 = 1 THEN -1 ELSE 1, BigPow(odd, n), e * n)>>

\* the power of a power of two x = 2^e for a whole y = -n < 0 when it is a
\* double
PowExactInverse(x, n, odd, e) ==
  IF odd # <<1>> \/ -e * n < -1074 \/ -e * n + 1 > 1024 THEN <<>>
  ELSE <<F64Round(IF x.s < 0 /\ n % 2 = 1 THEN -1 ELSE 1, <<1>>, -e * n)>>

PowExactAt(x, n, tz) ==
  IF n > 0 THEN PowExactOf(x, n, BigShr(x.m, tz), x.e + tz)
  ELSE PowExactInverse(x, -n, BigShr(x.m, tz), x.e + tz)

\* <<x^y>> when x^y is a double for finite x and y, x not 0 and y a whole
\* number of magnitude up to 1100; <<>> otherwise
PowExact(x, y) ==
  IF x.k = "num" /\ x.m # <<>> /\ F64IsWhole(y) /\ y.m # <<>>
       /\ F64Le(F64Abs(y), F64FromInt(1100))
  THEN PowExactAt(x, F64ToInt(y), BigTrailingZeros(x.m, 0))
  ELSE <<>>

\* the answers of Math.pow(x, y) when the power is no double: one answer
\* for y = 0 (1), y = 1 (x), y = 2 (x * x) and x = 1 (1)
MathPowApproximated(x, y) ==
  IF F64IsZero(y) \/ F64Eq(y, F64One) \/ F64Eq(y, F64Two) \/ F64Eq(x, F64One)
  THEN {PowFdlibm(x, y)}
  ELSE F64About(PowFdlibm(x, y))

\* the answers of Math.pow(x, y) from the power, when it is a double
MathPowFrom(x, y, exact) ==
  IF exact # <<>> THEN {exact[1]} ELSE MathPowApproximated(x, y)

\* the doubles Math.pow(x, y) can answer
MathPow(x, y) == MathPowFrom(x, y, PowExact(x, y))

\* the answer of Math.pow(x, y) where there is one only, as for y = 2
MathPowOnly(x, y) == CHOOSE z \in MathPow(x, y) : TRUE

\* the table pow with the answer a to the call c added
PowAnswered(pow, c, a) ==
  [d \in DOMAIN pow \cup {c} |-> IF d = c THEN a ELSE pow[d]]

\* the tables of answers to a set of calls <<x, y>>
RECURSIVE PowTables(_)
PowTablesWith(calls, c) ==
  {PowAnswered(pow, c, a) : pow \in PowTables(calls \ {c}), a \in MathPow(c[1], c[2])}

PowTables(calls) ==
  IF calls = {} THEN {<<>>}
  ELSE PowTablesWith(calls, CHOOSE c \in calls : TRUE)

-----------------------------------------------------------------------------
(* Option pricing (black-scholes.ts).  Line 26 of the file, the polynomial  *)
(* of normCDF, closes one parenthesis more than it opens.  The file is not  *)
(* a program: loading the module raises a SyntaxError, no statement of      *)
(* normCDF, blackScholes or calculateImpliedVolatility ever runs, and a     *)
(* caller of either exported function gets that error whatever the          *)
(* arguments.                                                               *)

\* const y = 1.0 - ((((a5 * t + a4) * t) + a3) * t + a2) * t + a1) * t *
\* Math.exp(-x * x): Unexpected token ')'
SyntaxError == [exit |-> "SyntaxError", value |-> <<>>]

\* blackScholes(S, K, T, r, sigma, optionType): the module that defines it
\* does not load
blackScholes(S, K, T, r, sigma, optionType) == SyntaxError

\* calculateImpliedVolatility(marketPrice, S, K, T, r, optionType, tolerance,
\* maxIterations), of the same module
calculateImpliedVolatility(marketPrice, S, K, T, r, optionType, tolerance, maxIterations) ==
  SyntaxError

\* blackScholes(S, K, T, r, sigma, optionType) called
blackScholesCall ==
  /\ optionFn = "blackScholes"
  /\ optionPc = "call"
  /\ optionPc' = "raised"
  /\ optionOut' = blackScholes(option.S, option.K, option.T, option.r,
                               option.sigma, option.optionType)
  /\ UNCHANGED <<optionFn, option, iv, exceptOptions>>

\* calculateImpliedVolatility(marketPrice, S, K, T, r, optionType, tolerance,
\* maxIterations) called
calculateImpliedVolatilityCall ==
  /\ optionFn = "calculateImpliedVolatility"
  /\ optionPc = "call"
  /\ optionPc' = "raised"
  /\ optionOut' = calculateImpliedVolatility(iv.marketPrice, option.S, option.K,
                    option.T, option.r, option.optionType, iv.tolerance,
                    iv.maxIterations)
  /\ UNCHANGED <<optionFn, option, iv, exceptOptions>>

-----------------------------------------------------------------------------
(* Bond valuation (src/unnamed/part_005) and yield.ts.  Every argument is a *)
(* double, the years and the coupon frequency too; maxIterations, which     *)
(* only bounds the loop counter, is a whole number.  A function that calls  *)
(* Math.pow has a last argument pow, the answers of Math.pow to its calls   *)
(* (a member of PowTables of the calls it makes).                           *)

\* Math.abs(periodicYield) < 1e-10 and Math.abs(derivative) < 1e-10
NearZero(x) == F64Lt(F64Abs(x), Double(<<15803, 10078, 3581, 1759>>, -86))

\* const couponPayment = (faceValue * couponRate) / couponFrequency
couponPayment(faceValue, couponRate, couponFrequency) ==
  F64Div(F64Mul(faceValue, couponRate), couponFrequency)

\* the guard of the exported calculateBondPrice
calculateBondPriceThrows(faceValue, yearsToMaturity, couponFrequency) ==
  \/ F64Le(faceValue, F64Zero)
  \/ F64Le(yearsToMaturity, F64Zero)
  \/ F64Le(couponFrequency, F64Zero)

\* faceValue + couponPayment * periods, the price at a yield of about 0
BondPriceAtZeroYield(faceValue, payment, periods) ==
  F64Add(faceValue, F64Mul(payment, periods))

\* pvCoupons + pvFaceValue, growth being 1 + periodicYield
BondPriceClosedForm(faceValue, payment, periods, periodicYield, growth, pow) ==
  F64Add(F64Div(F64Mul(payment,
                       F64Sub(F64One, pow[<<growth, F64Neg(periods)>>])),
                periodicYield),
         F64Div(faceValue, pow[<<growth, periods>>]))

\* the price from couponPayment, periods and periodicYield
BondPriceOf(faceValue, payment, periods, periodicYield, pow) ==
  IF NearZero(periodicYield)
  THEN BondPriceAtZeroYield(faceValue, payment, periods)
  ELSE BondPriceClosedForm(faceValue, payment, periods, periodicYield,
                           F64Add(F64One, periodicYield), pow)

\* the calls of Math.pow a pricing makes: none at a periodic yield of
\* about 0
BondPricePowCalls(periods, periodicYield) ==
  IF NearZero(periodicYield) THEN {}
  ELSE {<<F64Add(F64One, periodicYield), F64Neg(periods)>>,
        <<F64Add(F64One, periodicYield), periods>>}

\* the calls of Math.pow of calculateBondPrice, the same in both copies
calculateBondPricePowCalls(yieldRate, yearsToMaturity, couponFrequency) ==
  BondPricePowCalls(F64Mul(yearsToMaturity, couponFrequency),
                    F64Div(yieldRate, couponFrequency))

\* the exported calculateBondPrice, for arguments that pass the guard
calculateBondPrice(faceValue, couponRate, yieldRate, yearsToMaturity, couponFrequency, pow) ==
  BondPriceOf(faceValue,
              couponPayment(faceValue, couponRate, couponFrequency),
              F64Mul(yearsToMaturity, couponFrequency),
              F64Div(yieldRate, couponFrequency), pow)

\* the prices calculateBondPrice can return, one for each way Math.pow
\* answers its calls
calculateBondPriceAnswers(faceValue, couponRate, yieldRate, yearsToMaturity, couponFrequency) ==
  {calculateBondPrice(faceValue, couponRate, yieldRate, yearsToMaturity,
                      couponFrequency, pow) :
     pow \in PowTables(calculateBondPricePowCalls(yieldRate, yearsToMaturity,
                                                  couponFrequency))}

\* the calculateBondPrice of yield.ts, a copy without the guard
calculateBondPricePrivate(faceValue, couponRate, yieldRate, yearsToMaturity, couponFrequency, pow) ==
  BondPriceOf(faceValue,
              couponPayment(faceValue, couponRate, couponFrequency),
              F64Mul(yearsToMaturity, couponFrequency),
              F64Div(yieldRate, couponFrequency), pow)

\* term1 of calculateBondPriceDerivative
DerivativeTerm1(payment, periods, periodicYield, growth, pow) ==
  F64Mul(F64Div(F64Mul(F64Neg(payment), periods),
                F64Mul(periodicYield, periodicYield)),
         F64Sub(F64One, pow[<<growth, F64Neg(periods)>>]))

\* term2 and term3, which share Math.pow(1 + periodicYield, periods + 1)
DerivativeTerms23(faceValue, payment, periods, periodicYield, couponFrequency, discount) ==
  <<F64Div(F64Mul(payment, periods), F64Mul(periodicYield, discount)),
    F64Div(F64Mul(F64Neg(faceValue), periods), F64Mul(couponFrequency, discount))>>

\* (term1 + term2 + term3) / couponFrequency
DerivativeSum(term1, terms23, couponFrequency) ==
  F64Div(F64Add(F64Add(term1, terms23[1]), terms23[2]), couponFrequency)

\* the derivative outside the branch of a periodic yield of about 0
DerivativeClosedForm(faceValue, payment, periods, periodicYield, couponFrequency, growth, pow) ==
  DerivativeSum(DerivativeTerm1(payment, periods, periodicYield, growth, pow),
                DerivativeTerms23(faceValue, payment, periods, periodicYield,
                                  couponFrequency,
                                  pow[<<growth, F64Add(periods, F64One)>>]),
                couponFrequency)

\* the derivative from couponPayment, periods and periodicYield
DerivativeOf(faceValue, payment, periods, periodicYield, couponFrequency, pow) ==
  IF NearZero(periodicYield)
  THEN F64Div(F64Mul(F64Neg(periods), faceValue), couponFrequency)
  ELSE DerivativeClosedForm(faceValue, payment, periods, periodicYield,
                            couponFrequency, F64Add(F64One, periodicYield), pow)

\* the calls of Math.pow a derivative makes
DerivativePowCalls(periods, periodicYield) ==
  IF NearZero(periodicYield) THEN {}
  ELSE {<<F64Add(F64One, periodicYield), F64Neg(periods)>>,
        <<F64Add(F64One, periodicYield), F64Add(periods, F64One)>>}

\* the calls of Math.pow of calculateBondPriceDerivative
calculateBondPriceDerivativePowCalls(yieldRate, yearsToMaturity, couponFrequency) ==
  DerivativePowCalls(F64Mul(yearsToMaturity, couponFrequency),
                     F64Div(yieldRate, couponFrequency))

\* calculateBondPriceDerivative of yield.ts
calculateBondPriceDerivative(faceValue, couponRate, yieldRate, yearsToMaturity, couponFrequency, pow) ==
  DerivativeOf(faceValue,
               couponPayment(faceValue, couponRate, couponFrequency),
               F64Mul(yearsToMaturity, couponFrequency),
               F64Div(yieldRate, couponFrequency),
               couponFrequency, pow)

\* the guard of calculateYTM
calculateYTMThrows(faceValue, price, yearsToMaturity, couponFrequency) ==
  \/ F64Le(faceValue, F64Zero)
  \/ F64Le(price, F64Zero)
  \/ F64Le(yearsToMaturity, F64Zero)
  \/ F64Le(couponFrequency, F64Zero)

\* ytm = Math.max(-1, Math.min(1, ytm))
ClampYield(y) == MathMax(F64Neg(F64One), MathMin(F64One, y))

\* calculateBondPrice(faceValue, couponRate, yieldRate, yearsToMaturity,
\* couponFrequency) called
calculateBondPriceCall ==
  /\ bondFn = "calculateBondPrice"
  /\ bondPc = "call"
  /\ IF calculateBondPriceThrows(bond.faceValue, bond.yearsToMaturity,
                                 bond.couponFrequency)
     THEN /\ bondPc' = "raised"
          /\ bondOut' = [exit |-> "guard", value |-> F64Zero]
     ELSE /\ bondPc' = "returned"
          /\ \E pow \in PowTables(calculateBondPricePowCalls(bond.yieldRate,
                            bond.yearsToMaturity, bond.couponFrequency)) :
               bondOut' =
                 [exit  |-> "price",
                  value |-> calculateBondPrice(bond.faceValue, bond.couponRate,
                              bond.yieldRate, bond.yearsToMaturity,
                              bond.couponFrequency, pow)]
  /\ UNCHANGED <<bondFn, bond, ytm, ytmIter, exceptBonds>>

\* calculateYTM up to the loop: the guard and let ytm = couponRate
YTMStart ==
  /\ bondFn = "calculateYTM"
  /\ bondPc = "call"
  /\ IF calculateYTMThrows(bond.faceValue, bond.price, bond.yearsToMaturity,
                           bond.couponFrequency)
     THEN /\ bondPc' = "raised"
          /\ bondOut' = [exit |-> "guard", value |-> F64Zero]
          /\ ytm' = ytm
     ELSE /\ bondPc' = "loop"
          /\ bondOut' = bondOut
          /\ ytm' = bond.couponRate
  /\ ytmIter' = 0
  /\ UNCHANGED <<bondFn, bond, exceptBonds>>

\* the end of a pass once error and derivative are known: the test of the
\* derivative and the update
YTMUpdate(error, derivative) ==
  IF NearZero(derivative)
  THEN /\ bondPc' = "returned"
       /\ bondOut' = [exit |-> "break", value |-> ytm]
       /\ UNCHANGED <<ytm, ytmIter>>
  ELSE /\ bondPc' = "loop"
       /\ bondOut' = bondOut
       /\ ytm' = ClampYield(F64Sub(ytm, F64Div(error, derivative)))
       /\ ytmIter' = ytmIter + 1

\* the calls of Math.pow of one pass at the estimate y: those of the
\* pricing and, shared in part with them, those of the derivative
YTMPassPowCalls(y, yearsToMaturity, couponFrequency) ==
  calculateBondPricePowCalls(y, yearsToMaturity, couponFrequency)
    \cup calculateBondPriceDerivativePowCalls(y, yearsToMaturity,
                                              couponFrequency)

\* the rest of a pass once error is known, pow holding the answers of
\* Math.pow: the test of the error, and the derivative
YTMPass(error, pow) ==
  IF F64Lt(F64Abs(error), bond.tolerance)
  THEN /\ bondPc' = "returned"
       /\ bondOut' = [exit |-> "converged", value |-> ytm]
       /\ UNCHANGED <<ytm, ytmIter>>
  ELSE YTMUpdate(error,
                 calculateBondPriceDerivative(bond.faceValue, bond.couponRate,
                   ytm, bond.yearsToMaturity, bond.couponFrequency, pow))

\* one pass of the Newton-Raphson loop
YTMIteration ==
  /\ bondFn = "calculateYTM"
  /\ bondPc = "loop"
  /\ ytmIter < bond.maxIterations
  /\ \E pow \in PowTables(YTMPassPowCalls(ytm, bond.yearsToMaturity,
                                          bond.couponFrequency)) :
       YTMPass(F64Sub(calculateBondPricePrivate(bond.faceValue, bond.couponRate,
                        ytm, bond.yearsToMaturity, bond.couponFrequency, pow),
                      bond.price),
               pow)
  /\ UNCHANGED <<bondFn, bond, exceptBonds>>

\* the loop ran out: return ytm
YTMExhausted ==
  /\ bondFn = "calculateYTM"
  /\ bondPc = "loop"
  /\ ytmIter >= bond.maxIterations
  /\ bondPc' = "returned"
  /\ bondOut' = [exit |-> "cap", value |-> ytm]
  /\ UNCHANGED <<bondFn, bond, ytm, ytmIter, exceptBonds>>

-----------------------------------------------------------------------------
(* Regression (src/unnamed/part_030) and the Fama-French models              *)
(* (src/unnamed/part_032).  Series are sequences of doubles.                 *)

\* Math.max(0, Math.min(1, r)): NaN stays NaN
ClampUnit(r) == MathMax(F64Zero, MathMin(F64One, r))

\* sum + f[from] + ... + f[to], added in that order, the first half of the
\* terms and then the rest; a sum that is NaN stays NaN
RECURSIVE F64SumFrom(_, _, _, _)
F64SumFrom(f, sum, from, to) ==
  IF F64IsNaN(sum) \/ from > to THEN sum
  ELSE IF from = to THEN F64Add(sum, f[from])
  ELSE F64SumFrom(f, F64SumFrom(f, sum, from, from + (to - from) \div 2),
                  from + (to - from) \div 2 + 1, to)

\* 0 + f[1] + ... + f[n], added in that order: reduce((sum, val) => sum + val, 0)
\* and a loop of sum += ...
F64SumTo(f, n) == F64SumFrom(f, F64Zero, 1, n)

\* col[i], undefined past the end of col: NaN in the arithmetic that follows
ElementAt(col, i) == IF i <= Len(col) THEN col[i] ELSE F64NaN

\* the sum of the products a[i] * b[i], i = 1..n
SumProducts(a, b, n) == F64SumTo([i \in 1..n |-> F64Mul(a[i], b[i])], n)

\* ssTotal and ssResidual: the sum of Math.pow(y[i] - predicted[i], 2)
SumSquaredDistance(y, predicted) ==
  F64SumTo([i \in 1..Len(y) |-> MathPowOnly(F64Sub(y[i], predicted[i]), F64Two)],
           Len(y))

\* const denominator = n * sumXX - sumX * sumX
slopeDenominator(n, sumXX, sumX) == F64Sub(F64Mul(n, sumXX), F64Mul(sumX, sumX))

\* n, sumX, sumY, sumXY and sumXX of simpleLinearRegression
SimpleSums(x, y) ==
  [n     |-> F64FromInt(Len(x)),
   sumX  |-> F64SumTo(x, Len(x)),
   sumY  |-> F64SumTo(y, Len(x)),
   sumXY |-> SumProducts(x, y, Len(x)),
   sumXX |-> SumProducts(x, x, Len(x))]

\* whether simpleLinearRegression throws
simpleLinearRegressionThrows(x, y) ==
  \/ Len(x) # Len(y)
  \/ Len(x) < 2
  \/ F64IsZero(slopeDenominator(F64FromInt(Len(x)), SumProducts(x, x, Len(x)),
                                F64SumTo(x, Len(x))))

\* const slope = (n * sumXY - sumX * sumY) / denominator
SimpleSlope(sums) ==
  F64Div(F64Sub(F64Mul(sums.n, sums.sumXY), F64Mul(sums.sumX, sums.sumY)),
         slopeDenominator(sums.n, sums.sumXX, sums.sumX))

\* const intercept = (sumY - slope * sumX) / n
SimpleIntercept(sums, slope) ==
  F64Div(F64Sub(sums.sumY, F64Mul(slope, sums.sumX)), sums.n)

\* rSquared, clamped, and standardError from the two sums of squares
SimpleResult(intercept, slope, n, ssTotal, ssResidual) ==
  [intercept     |-> intercept,
   slope         |-> slope,
   rSquared      |-> ClampUnit(IF F64IsZero(ssTotal) THEN F64Zero
                               ELSE F64Sub(F64One, F64Div(ssResidual, ssTotal))),
   standardError |-> F64Sqrt(F64Div(ssResidual, F64Sub(n, F64Two)))]

\* the loop over the observations, yMean being sumY / n
SimpleFromLine(x, y, sums, slope, intercept, yMean) ==
  SimpleResult(intercept, slope, sums.n,
               SumSquaredDistance(y, [i \in 1..Len(x) |-> yMean]),
               SumSquaredDistance(y, [i \in 1..Len(x) |->
                                        F64Add(intercept, F64Mul(slope, x[i]))]))

SimpleFromSlope(x, y, sums, slope) ==
  SimpleFromLine(x, y, sums, slope, SimpleIntercept(sums, slope),
                 F64Div(sums.sumY, sums.n))

SimpleFromSums(x, y, sums) == SimpleFromSlope(x, y, sums, SimpleSlope(sums))

\* simpleLinearRegression, for arguments it does not throw on
simpleLinearRegression(x, y) == SimpleFromSums(x, y, SimpleSums(x, y))

\* the row the scan started from, whatever lies below it
PivotScanOmitted(augmented, i, k, maxRow) == maxRow

\* the row among k..n with the largest |augmented[row][i]|, the first such,
\* given that maxRow is that row among i..k-1
RECURSIVE PivotScan(_, _, _, _)
PivotScan(augmented, i, k, maxRow) ==
  IF k > Len(augmented) THEN maxRow
  ELSE PivotScan(augmented, i, k + 1,
                 IF F64Gt(F64Abs(augmented[k][i]), F64Abs(augmented[maxRow][i]))
                 THEN k ELSE maxRow)

\* [augmented[i], augmented[maxRow]] = [augmented[maxRow], augmented[i]]
SwapRows(augmented, i, maxRow) ==
  [k \in 1..Len(augmented) |->
     IF k = i THEN augmented[maxRow]
     ELSE IF k = maxRow THEN augmented[i]
     ELSE augmented[k]]

\* augmented[k][j] -= factor * augmented[i][j] for j from i on
EliminateRow(row, pivotRow, i, factor) ==
  [j \in 1..Len(row) |->
     IF j < i THEN row[j] ELSE F64Sub(row[j], F64Mul(factor, pivotRow[j]))]

\* the rows below row i less factor times row i, from column i on
EliminateColumn(augmented, i) ==
  [k \in 1..Len(augmented) |->
     IF k <= i THEN augmented[k]
     ELSE EliminateRow(augmented[k], augmented[i], i,
                       F64Div(augmented[k][i], augmented[i][i]))]

\* forward elimination from step i on, the rows of the step swapped; checked:
\* the solver raises on a pivot below 1e-10 before it divides by it
RECURSIVE ForwardElimination(_, _, _)
ForwardFrom(swapped, i, checked) ==
  IF checked /\ i < Len(swapped) /\ NearZero(swapped[i][i])
  THEN [singular |-> TRUE, augmented |-> swapped]
  ELSE ForwardElimination(EliminateColumn(swapped, i), i + 1, checked)

ForwardElimination(augmented, i, checked) ==
  IF i > Len(augmented) THEN [singular |-> FALSE, augmented |-> augmented]
  ELSE ForwardFrom(SwapRows(augmented, i, PivotScan(augmented, i, i + 1, i)),
                   i, checked)

\* x[i] = augmented[i][n] less augmented[i][j] * x[j] for j = i+1..n
RECURSIVE RowRemainder(_, _, _, _, _)
RowRemainder(augmented, i, x, j, acc) ==
  IF j > Len(augmented) THEN acc
  ELSE RowRemainder(augmented, i, x, j + 1,
                    F64Sub(acc, F64Mul(augmented[i][j], x[j])))

\* back-substitution from row i up
RECURSIVE BackSubstitution(_, _, _, _)
BackSubstitution(augmented, i, x, checked) ==
  IF i = 0 THEN [singular |-> FALSE, x |-> x]
  ELSE IF checked /\ NearZero(augmented[i][i]) THEN [singular |-> TRUE, x |-> x]
  ELSE BackSubstitution(augmented, i - 1,
         [x EXCEPT ![i] = F64Div(RowRemainder(augmented, i, x, i + 1,
                                              augmented[i][Len(augmented) + 1]),
                                 augmented[i][i])],
         checked)

\* back-substitution unless the forward elimination raised
SolveFrom(forward, n, checked) ==
  IF forward.singular THEN [singular |-> TRUE, x |-> <<>>]
  ELSE BackSubstitution(forward.augmented, n, [i \in 1..n |-> F64Zero], checked)

\* Gaussian elimination of A x = b
SolveLinearSystem(A, b, checked) ==
  SolveFrom(ForwardElimination([i \in 1..Len(A) |->
                                  [j \in 1..Len(A) + 1 |->
                                     IF j <= Len(A) THEN A[i][j] ELSE b[i]]],
                               1, checked),
            Len(A), checked)

\* X[i] = [1, ...x.map((col) => col[i])], for n observations
DesignMatrix(x, n) ==
  [i \in 1..n |->
     [j \in 1..Len(x) + 1 |-> IF j = 1 THEN F64One ELSE ElementAt(x[j - 1], i)]]

\* X'X and X'y of solveNormalEquation
NormalMatrix(X) ==
  [i \in 1..Len(X[1]) |->
     [j \in 1..Len(X[1]) |->
        F64SumTo([m \in 1..Len(X) |-> F64Mul(X[m][i], X[m][j])], Len(X))]]

NormalVector(X, y) ==
  [i \in 1..Len(X[1]) |->
     F64SumTo([m \in 1..Len(X) |-> F64Mul(X[m][i], y[m])], Len(X))]

\* solveNormalEquation with the gaussianElimination of part_030, which raises
\* on a singular matrix (checked), and with the one of part_032, which never
\* raises
SolveNormalEquationOf(X, y, checked) ==
  SolveLinearSystem(NormalMatrix(X), NormalVector(X, y), checked)

solveNormalEquation(X, y) == SolveNormalEquationOf(X, y, TRUE)

solveNormalEquationPrivate(X, y) == SolveNormalEquationOf(X, y, FALSE)

\* coefficients[0] + the sum of coef * x[j][i], for each observation i
PredictedValues(coefficients, x, n) ==
  [i \in 1..n |->
     F64Add(coefficients[1],
            F64SumTo([j \in 1..Len(x) |->
                        F64Mul(coefficients[j + 1], ElementAt(x[j], i))],
                     Len(x)))]

\* y.reduce((sum, val) => sum + val, 0) / n
MeanOf(y) == F64Div(F64SumTo(y, Len(y)), F64FromInt(Len(y)))

\* yMean at every observation
MeanValues(y, yMean) == [i \in 1..Len(y) |-> yMean]

\* whether the exported multipleLinearRegression throws before it solves
multipleLinearRegressionRejects(y, x) ==
  \/ Len(x) = 0
  \/ Len(y) # Len(x[1])
  \/ Len(y) < Len(x) + 1

\* 1 - (1 - rSquared) * ((n - 1) / (n - k - 1))
AdjustedRSquared(rSquared, n, k) ==
  F64Sub(F64One,
         F64Mul(F64Sub(F64One, rSquared),
                F64Div(F64FromInt(n - 1), F64FromInt(n - k - 1))))

\* the result of the exported multipleLinearRegression from rSquared
MultipleResult(coefficients, rSquared, n, k) ==
  [intercept        |-> coefficients[1],
   coefficients     |-> [j \in 1..k |-> coefficients[j + 1]],
   rSquared         |-> ClampUnit(rSquared),
   adjustedRSquared |-> ClampUnit(AdjustedRSquared(rSquared, n, k))]

\* ssTotal === 0 ? 0 : 1 - ssResidual / ssTotal
GuardedRSquared(ssTotal, ssResidual) ==
  IF F64IsZero(ssTotal) THEN F64Zero
  ELSE F64Sub(F64One, F64Div(ssResidual, ssTotal))

\* the sums of squares of a multiple regression
SumsOfSquares(y, x, coefficients) ==
  [ssTotal    |-> SumSquaredDistance(y, MeanValues(y, MeanOf(y))),
   ssResidual |-> SumSquaredDistance(y, PredictedValues(coefficients, x, Len(y)))]

MultipleFromSquares(y, x, coefficients, squares) ==
  MultipleResult(coefficients,
                 GuardedRSquared(squares.ssTotal, squares.ssResidual),
                 Len(y), Len(x))

\* the exported multipleLinearRegression once the normal equation is solved
multipleLinearRegression(y, x, coefficients) ==
  MultipleFromSquares(y, x, coefficients, SumsOfSquares(y, x, coefficients))

PrivateFromSquares(coefficients, squares, k) ==
  [intercept    |-> coefficients[1],
   coefficients |-> [j \in 1..k |-> coefficients[j + 1]],
   rSquared     |-> ClampUnit(F64Sub(F64One,
                                     F64Div(squares.ssResidual, squares.ssTotal)))]

PrivateFromCoefficients(y, x, coefficients) ==
  PrivateFromSquares(coefficients, SumsOfSquares(y, x, coefficients), Len(x))

\* the multipleLinearRegression of part_032: no argument check, a solver that
\* never raises, and 1 - ssResidual / ssTotal whatever ssTotal is
multipleLinearRegressionPrivate(y, x) ==
  PrivateFromCoefficients(y, x,
                          solveNormalEquationPrivate(DesignMatrix(x, Len(y)), y).x)

\* the guards of calculateFamaFrench3Factor and calculateFamaFrench5Factor;
\* minimum is 4 and 6
calculateFamaFrenchThrows(stockReturns, factors, minimum) ==
  \/ \E j \in 1..Len(factors) : Len(factors[j]) # Len(stockReturns)
  \/ Len(stockReturns) < minimum

\* the FamaFrench3FactorResult and FamaFrench5FactorResult made of the
\* regression's result
FamaFrench3FactorResult(fit) ==
  [alpha    |-> fit.intercept,
   beta     |-> fit.coefficients[1],
   smb      |-> fit.coefficients[2],
   hml      |-> fit.coefficients[3],
   rSquared |-> fit.rSquared]

FamaFrench5FactorResult(fit) ==
  [alpha    |-> fit.intercept,
   beta     |-> fit.coefficients[1],
   smb      |-> fit.coefficients[2],
   hml      |-> fit.coefficients[3],
   rmw      |-> fit.coefficients[4],
   cma      |-> fit.coefficients[5],
   rSquared |-> fit.rSquared]

\* what a regression that raised leaves
NoRegression == [exit |-> "raised", rSquared |-> F64Zero]

\* simpleLinearRegression(x, y) called, x the first series of reg.x
simpleLinearRegressionCall ==
  /\ regFn = "simpleLinearRegression"
  /\ regPc = "call"
  /\ IF simpleLinearRegressionThrows(reg.x[1], reg.y)
     THEN /\ regPc' = "raised"
          /\ regOut' = NoRegression
     ELSE /\ regPc' = "returned"
          /\ regOut' = [exit |-> "returned"] @@ simpleLinearRegression(reg.x[1], reg.y)
  /\ UNCHANGED <<regFn, reg, exceptRegression>>

\* the call from solveNormalEquation on: it raises if the solver did
MultipleRegressionSolved(solved) ==
  IF solved.singular
  THEN /\ regPc' = "raised"
       /\ regOut' = NoRegression
  ELSE /\ regPc' = "returned"
       /\ regOut' = [exit |-> "returned"]
                      @@ multipleLinearRegression(reg.y, reg.x, solved.x)

\* multipleLinearRegression(y, x) called
multipleLinearRegressionCall ==
  /\ regFn = "multipleLinearRegression"
  /\ regPc = "call"
  /\ IF multipleLinearRegressionRejects(reg.y, reg.x)
     THEN /\ regPc' = "raised"
          /\ regOut' = NoRegression
     ELSE MultipleRegressionSolved(
            solveNormalEquation(DesignMatrix(reg.x, Len(reg.y)), reg.y))
  /\ UNCHANGED <<regFn, reg, exceptRegression>>

\* calculateFamaFrench3Factor(stockReturns, marketReturns, smbReturns,
\* hmlReturns) called: reg.y and the three series of reg.x
calculateFamaFrench3Factor ==
  /\ regFn = "calculateFamaFrench3Factor"
  /\ regPc = "call"
  /\ Len(reg.x) = 3
  /\ IF calculateFamaFrenchThrows(reg.y, reg.x, 4)
     THEN /\ regPc' = "raised"
          /\ regOut' = NoRegression
     ELSE /\ regPc' = "returned"
          /\ regOut' = [exit |-> "returned"]
                         @@ FamaFrench3FactorResult(
                              multipleLinearRegressionPrivate(reg.y, reg.x))
  /\ UNCHANGED <<regFn, reg, exceptRegression>>

\* calculateFamaFrench5Factor called: reg.y and the five series of reg.x
calculateFamaFrench5Factor ==
  /\ regFn = "calculateFamaFrench5Factor"
  /\ regPc = "call"
  /\ Len(reg.x) = 5
  /\ IF calculateFamaFrenchThrows(reg.y, reg.x, 6)
     THEN /\ regPc' = "raised"
          /\ regOut' = NoRegression
     ELSE /\ regPc' = "returned"
          /\ regOut' = [exit |-> "returned"]
                         @@ FamaFrench5FactorResult(
                              multipleLinearRegressionPrivate(reg.y, reg.x))
  /\ UNCHANGED <<regFn, reg, exceptRegression>>

-----------------------------------------------------------------------------
(* Risk measures (packages/calculations/src/risk.ts), valuation models      *)
(* (src/unnamed/part_000) and calculatePresentValue (src/unnamed/part_005). *)
(* A function is an operator from its arguments to its outcome: the value   *)
(* returned, or the error raised.  Numbers are doubles; a count of years    *)
(* or of periods is a double as well, and the turns of the loop over it are *)
(* counted in whole numbers.  A function that calls Math.pow has a last     *)
(* argument pow, the answers of Math.pow to its calls (a member of          *)
(* PowTables of the calls it makes).                                        *)

Raised == [exit |-> "raised", value |-> <<>>]
Returned(v) == [exit |-> "returned", value |-> v]

\* the call is in a loop that does not end
NeverEnds == [exit |-> "loop", value |-> <<>>]

\* an optional argument: left out, or given
Omitted == [defined |-> FALSE, value |-> F64Zero]
Supplied(v) == [defined |-> TRUE, value |-> v]

\* v || 0: 0 in the place of 0, -0 and NaN
OrZero(v) == IF F64IsNaN(v) \/ F64IsZero(v) THEN F64Zero ELSE v

\* whether for (let i = 1; i <= count; i++) never ends: from 2^53 on i++
\* leaves i as it is, so i stays at or below a count of 2^53 or more
LoopNeverEnds(count) == F64Le(Double(<<0, 0, 0, 1024>>, 1), count)

\* the turns of for (let i = 1; i <= count; i++), "never" being those of a
\* loop that does not end
LoopTurns(count) ==
  IF LoopNeverEnds(count) THEN "never"
  ELSE IF F64Le(F64One, count) THEN F64ToInt(MathFloor(count))
  ELSE 0

(* [...returns].sort((a, b) => a - b) as V8 runs it                         *)
(* (third_party/v8/builtins/array-sort.tq, ArrayTimSortImpl): the array is  *)
(* cut into runs, a run being the ascending or descending stretch found at  *)
(* its start, reversed if it descends and filled up by binary insertion to  *)
(* the minimal run length, and the runs are merged, galloping when one of   *)
(* them wins kMinGallopWins = 7 times in a row.  An array of fewer than 64      *)
(* numbers is one run.  An answer NaN of the comparator counts as 0, so     *)
(* that an array with a NaN in it need not come out in order.               *)

\* whether the comparator answers a number below 0 for (a, b)
ComesBefore(a, b) == F64Lt(F64Sub(a, b), F64Zero)

\* ComputeMinRunLength: n below 64, else its six leading bits, one more if
\* a bit below them is set
RECURSIVE ComputeMinRunLength(_, _)
ComputeMinRunLength(n, r) ==
  IF n < 64 THEN n + r
  ELSE ComputeMinRunLength(n \div 2, IF n % 2 = 1 THEN 1 ELSE r)

\* CountAndMakeRun: the first index from idx to last at which the run of
\* the values ends, 0 when it ends at none of them; the indices are asked
\* in their order, the first half of them and then the rest
RECURSIVE RunEnd(_, _, _, _)
RunEndAfter(values, descending, idx, last, found) ==
  IF found # 0 THEN found ELSE RunEnd(values, descending, idx, last)

RunEnd(values, descending, idx, last) ==
  IF idx > last THEN 0
  ELSE IF idx = last
  THEN IF ComesBefore(values[idx], values[idx - 1]) # descending THEN idx
       ELSE 0
  ELSE RunEndAfter(values, descending, idx + (last - idx) \div 2 + 1, last,
                   RunEnd(values, descending, idx,
                          idx + (last - idx) \div 2))

RunLengthTo(values, end) == IF end = 0 THEN Len(values) ELSE end - 1

\* the length of the run of values that starts at the first of them, the
\* elements up to idx - 1 being in it
RunLengthFrom(values, descending, idx) ==
  RunLengthTo(values, RunEnd(values, descending, idx, Len(values)))

\* ReverseRange on the first run elements
ReverseRun(values, run) ==
  [i \in 1..Len(values) |-> IF i <= run THEN values[run + 1 - i] ELSE values[i]]

\* the search of BinaryInsertionSort for the place of pivot in the sorted
\* elements left..right - 1
RECURSIVE InsertionPoint(_, _, _, _)
InsertionPointAt(values, pivot, left, right, mid) ==
  IF ComesBefore(pivot, values[mid])
  THEN InsertionPoint(values, pivot, left, mid)
  ELSE InsertionPoint(values, pivot, mid + 1, right)

InsertionPoint(values, pivot, left, right) ==
  IF left >= right THEN left
  ELSE InsertionPointAt(values, pivot, left, right,
                        left + (right - left) \div 2)

\* the element at start moved down to left
MoveDown(values, start, left) ==
  SubSeq(values, 1, left - 1) \o <<values[start]>>
    \o SubSeq(values, left, start - 1)
    \o SubSeq(values, start + 1, Len(values))

\* BinaryInsertionSort of the values: the elements from start to high - 1,
\* none of them past the last of the values, put in their places in turn,
\* the first half of them and then the rest
RECURSIVE BinaryInsertionSort(_, _, _)
BinaryInsertionSort(values, start, high) ==
  IF start > Len(values) \/ start >= high THEN values
  ELSE IF start + 1 = high
  THEN MoveDown(values, start,
                InsertionPoint(values, values[start], 1, start))
  ELSE BinaryInsertionSort(
         BinaryInsertionSort(values, start, start + (high - start) \div 2),
         start + (high - start) \div 2, high)

\* the values with a run of the length forced at their start: the run found
\* there, filled up by binary insertion when it is shorter
RunForced(values, run, forced) ==
  [values |-> IF run < forced
              THEN BinaryInsertionSort(values, run + 1, forced + 1)
              ELSE values,
   length |-> IF run < forced THEN forced ELSE run]

\* the run at the start of the values, made ascending and no shorter than
\* minRunLength unless the values end before
SortFromRun(values, descending, run, minRunLength) ==
  RunForced(IF descending THEN ReverseRun(values, run) ELSE values, run,
            IF minRunLength < Len(values) THEN minRunLength ELSE Len(values))

SortWithOrder(values, descending, minRunLength) ==
  SortFromRun(values, descending, RunLengthFrom(values, descending, 3),
              minRunLength)

\* the next run of ArrayTimSortImpl: values are the elements not yet in a
\* run
NextRun(values, minRunLength) ==
  IF Len(values) < 2 THEN [values |-> values, length |-> Len(values)]
  ELSE SortWithOrder(values, ComesBefore(values[2], values[1]), minRunLength)

\* the order of the key and an element as GallopRight (keyFirst) and
\* GallopLeft ask the comparator for it
GallopBefore(keyFirst, key, element) ==
  IF keyFirst THEN ComesBefore(key, element) ELSE ComesBefore(element, key)

\* the galloping of GallopLeft and GallopRight from the element at from in
\* the direction dir: lastOfs and offset when it stops, offset growing as
\* 1, 3, 7, ... up to maxOfs
RECURSIVE GallopReach(_, _, _, _, _, _, _, _, _)
GallopReach(array, key, keyFirst, from, dir, stop, lastOfs, offset, maxOfs) ==
  IF offset >= maxOfs THEN <<lastOfs, maxOfs>>
  ELSE IF GallopBefore(keyFirst, key, array[from + dir * offset]) = stop
  THEN <<lastOfs, offset>>
  ELSE GallopReach(array, key, keyFirst, from, dir, stop, offset,
                   2 * offset + 1, maxOfs)

\* the binary search that ends GallopLeft and GallopRight, between the
\* offsets lastOfs and offset from base
RECURSIVE GallopSearch(_, _, _, _, _, _)
GallopSearchAt(array, key, keyFirst, base, lastOfs, offset, m) ==
  IF GallopBefore(keyFirst, key, array[base + m + 1]) # keyFirst
  THEN GallopSearch(array, key, keyFirst, base, m + 1, offset)
  ELSE GallopSearch(array, key, keyFirst, base, lastOfs, m)

GallopSearch(array, key, keyFirst, base, lastOfs, offset) ==
  IF lastOfs >= offset THEN offset
  ELSE GallopSearchAt(array, key, keyFirst, base, lastOfs, offset,
                      lastOfs + (offset - lastOfs) \div 2)

\* the offsets between which the galloping leaves the key, counted from
\* base
GallopBounds(toRight, hint, reach) ==
  IF toRight THEN <<reach[1] + hint, reach[2] + hint>>
  ELSE <<hint - reach[2], hint - reach[1]>>

GallopWithin(array, key, keyFirst, base, bounds) ==
  GallopSearch(array, key, keyFirst, base, bounds[1] + 1, bounds[2])

\* the galloping once the order of the key and the element at hint is
\* known
GallopFrom(array, key, keyFirst, base, length, hint, before) ==
  GallopWithin(array, key, keyFirst, base,
    GallopBounds(before # keyFirst, hint,
      GallopReach(array, key, keyFirst, base + hint + 1,
                  IF before # keyFirst THEN 1 ELSE -1, ~before, 0, 1,
                  IF before # keyFirst THEN length - hint ELSE hint + 1)))

\* GallopRight (keyFirst) and GallopLeft: the offset from base, in the
\* length elements of the array after base, at which the key belongs,
\* after the elements equal to it or before them; the search starts at the
\* offset hint
Gallop(array, key, keyFirst, base, length, hint) ==
  GallopFrom(array, key, keyFirst, base, length, hint,
             GallopBefore(keyFirst, key, array[base + hint + 1]))

\* a merged stretch and the minGallop the merge leaves in the sort state
Merged(values, minGallop) ==
  [label |-> "done", values |-> values, minGallop |-> minGallop]

\* a merge under way: the loop it is in ("oneByOne" or "gallop"), its two
\* cursors or remaining lengths, the elements merged so far, the wins in a
\* row of each run, its minGallop and the one stored in the sort state
Merging(label, a, b, out, nofWinsA, nofWinsB, minGallop, stored) ==
  [label |-> label, a |-> a, b |-> b, out |-> out, nofWinsA |-> nofWinsA,
   nofWinsB |-> nofWinsB, minGallop |-> minGallop, stored |-> stored]

\* MergeLow, label Succeed: what is left of run A follows the merged
\* elements, what is left of run B is in its place
MergeLowSucceed(A, B, ca, cb, out, stored) ==
  Merged(out \o SubSeq(A, ca + 1, Len(A)) \o SubSeq(B, cb + 1, Len(B)), stored)

\* MergeLow, label CopyB: the last element of run A goes behind what is
\* left of run B
MergeLowCopyB(A, B, ca, cb, out, stored) ==
  Merged(out \o SubSeq(B, cb + 1, Len(B)) \o <<A[ca + 1]>>, stored)

\* MergeLow, ca elements of the copy A of the first run and cb elements of
\* the second run B being merged into out: one pass of the galloping loop
MergeLowGallopEnd(A, B, ca, cb, out, minGallop, nofWinsA, nofWinsB) ==
  IF Len(A) - ca = 1 THEN MergeLowCopyB(A, B, ca, cb, out, minGallop)
  ELSE IF nofWinsA >= 7 \/ nofWinsB >= 7
  THEN Merging("gallop", ca, cb, out, 0, 0, minGallop, minGallop)
  ELSE Merging("oneByOne", ca, cb, out, 0, 0, minGallop + 1, minGallop + 1)

MergeLowGallopedB(A, B, ca, cb, out, minGallop, nofWinsA, nofWinsB) ==
  IF nofWinsB > 0 /\ Len(B) - cb = 0
  THEN MergeLowSucceed(A, B, ca, cb, out, minGallop)
  ELSE MergeLowGallopEnd(A, B, ca + 1, cb, Append(out, A[ca + 1]), minGallop,
                         nofWinsA, nofWinsB)

MergeLowGallopB(A, B, ca, cb, out, minGallop, nofWinsA, nofWinsB) ==
  MergeLowGallopedB(A, B, ca, cb + nofWinsB,
                    out \o SubSeq(B, cb + 1, cb + nofWinsB), minGallop,
                    nofWinsA, nofWinsB)

MergeLowGallopTakeB(A, B, ca, cb, out, minGallop, nofWinsA) ==
  IF Len(B) - cb = 0 THEN MergeLowSucceed(A, B, ca, cb, out, minGallop)
  ELSE MergeLowGallopB(A, B, ca, cb, out, minGallop, nofWinsA,
                       Gallop(B, A[ca + 1], FALSE, cb, Len(B) - cb, 0))

MergeLowGallopedA(A, B, ca, cb, out, minGallop, nofWinsA) ==
  IF nofWinsA > 0 /\ Len(A) - ca = 1
  THEN MergeLowCopyB(A, B, ca, cb, out, minGallop)
  ELSE IF nofWinsA > 0 /\ Len(A) - ca = 0
  THEN MergeLowSucceed(A, B, ca, cb, out, minGallop)
  ELSE MergeLowGallopTakeB(A, B, ca, cb + 1, Append(out, B[cb + 1]),
                           minGallop, nofWinsA)

MergeLowGallopA(A, B, ca, cb, out, minGallop, nofWinsA) ==
  MergeLowGallopedA(A, B, ca + nofWinsA, cb,
                    out \o SubSeq(A, ca + 1, ca + nofWinsA), minGallop,
                    nofWinsA)

MergeLowGallopWith(A, B, ca, cb, out, minGallop) ==
  MergeLowGallopA(A, B, ca, cb, out, minGallop,
                  Gallop(A, B[cb + 1], TRUE, ca, Len(A) - ca, 0))

MergeLowGallop(A, B, ca, cb, out, minGallop) ==
  MergeLowGallopWith(A, B, ca, cb, out,
                     IF minGallop - 1 > 1 THEN minGallop - 1 ELSE 1)

\* MergeLow: one pass of the loop that takes one element at a time and
\* counts the wins of each run; a run that wins minGallop times in a row
\* starts the galloping, for which minGallop is one more
MergeLowWonB(A, B, ca, cb, out, nofWinsB, minGallop, stored) ==
  IF Len(B) - cb = 0 THEN MergeLowSucceed(A, B, ca, cb, out, stored)
  ELSE IF nofWinsB >= minGallop
  THEN Merging("gallop", ca, cb, out, 0, nofWinsB, minGallop + 1, stored)
  ELSE Merging("oneByOne", ca, cb, out, 0, nofWinsB, minGallop, stored)

MergeLowWonA(A, B, ca, cb, out, nofWinsA, minGallop, stored) ==
  IF Len(A) - ca = 1 THEN MergeLowCopyB(A, B, ca, cb, out, stored)
  ELSE IF nofWinsA >= minGallop
  THEN Merging("gallop", ca, cb, out, nofWinsA, 0, minGallop + 1, stored)
  ELSE Merging("oneByOne", ca, cb, out, nofWinsA, 0, minGallop, stored)

MergeLowOneByOne(A, B, ca, cb, out, nofWinsA, nofWinsB, minGallop, stored) ==
  IF ComesBefore(B[cb + 1], A[ca + 1])
  THEN MergeLowWonB(A, B, ca, cb + 1, Append(out, B[cb + 1]), nofWinsB + 1,
                    minGallop, stored)
  ELSE MergeLowWonA(A, B, ca + 1, cb, Append(out, A[ca + 1]), nofWinsA + 1,
                    minGallop, stored)

\* MergeLow of the runs A and B, A no longer than B, at its start: the
\* first element of B goes first
MergeLow(A, B, minGallop) ==
  IF Len(B) = 1 THEN MergeLowSucceed(A, B, 0, 1, <<B[1]>>, minGallop)
  ELSE IF Len(A) = 1 THEN MergeLowCopyB(A, B, 0, 1, <<B[1]>>, minGallop)
  ELSE Merging("oneByOne", 0, 1, <<B[1]>>, 0, 0, minGallop, minGallop)

\* MergeHigh, label Succeed: what is left of the copy B goes before the
\* merged elements, what is left of run A is in its place
MergeHighSucceed(A, B, la, lb, out, stored) ==
  Merged(SubSeq(A, 1, la) \o SubSeq(B, 1, lb) \o out, stored)

\* MergeHigh, label CopyA: the first element of run B goes before what is
\* left of run A
MergeHighCopyA(A, B, la, lb, out, stored) ==
  Merged(<<B[lb]>> \o SubSeq(A, 1, la) \o out, stored)

\* MergeHigh, la elements of the first run A and lb elements of the copy B
\* of the second run being left and out the elements merged, from the end
\* of the runs down: one pass of the galloping loop
MergeHighGallopEnd(A, B, la, lb, out, minGallop, nofWinsA, nofWinsB) ==
  IF la = 0 THEN MergeHighSucceed(A, B, la, lb, out, minGallop)
  ELSE IF nofWinsA >= 7 \/ nofWinsB >= 7
  THEN Merging("gallop", la, lb, out, 0, 0, minGallop, minGallop)
  ELSE Merging("oneByOne", la, lb, out, 0, 0, minGallop + 1, minGallop + 1)

MergeHighGallopedB(A, B, la, lb, out, minGallop, nofWinsA, nofWinsB) ==
  IF nofWinsB > 0 /\ lb = 1
  THEN MergeHighCopyA(A, B, la, lb, out, minGallop)
  ELSE IF nofWinsB > 0 /\ lb = 0
  THEN MergeHighSucceed(A, B, la, lb, out, minGallop)
  ELSE MergeHighGallopEnd(A, B, la - 1, lb, <<A[la]>> \o out, minGallop,
                          nofWinsA, nofWinsB)

MergeHighGallopB(A, B, la, lb, out, minGallop, nofWinsA, k) ==
  MergeHighGallopedB(A, B, la, k, SubSeq(B, k + 1, lb) \o out, minGallop,
                     nofWinsA, lb - k)

MergeHighGallopTakeB(A, B, la, lb, out, minGallop, nofWinsA) ==
  IF lb = 1 THEN MergeHighCopyA(A, B, la, lb, out, minGallop)
  ELSE MergeHighGallopB(A, B, la, lb, out, minGallop, nofWinsA,
                        Gallop(B, A[la], FALSE, 0, lb, lb - 1))

MergeHighGallopedA(A, B, la, lb, out, minGallop, nofWinsA) ==
  IF nofWinsA > 0 /\ la = 0
  THEN MergeHighSucceed(A, B, la, lb, out, minGallop)
  ELSE MergeHighGallopTakeB(A, B, la, lb - 1, <<B[lb]>> \o out, minGallop,
                            nofWinsA)

MergeHighGallopA(A, B, la, lb, out, minGallop, k) ==
  MergeHighGallopedA(A, B, k, lb, SubSeq(A, k + 1, la) \o out, minGallop,
                     la - k)

MergeHighGallopWith(A, B, la, lb, out, minGallop) ==
  MergeHighGallopA(A, B, la, lb, out, minGallop,
                   Gallop(A, B[lb], TRUE, 0, la, la - 1))

MergeHighGallop(A, B, la, lb, out, minGallop) ==
  MergeHighGallopWith(A, B, la, lb, out,
                      IF minGallop - 1 > 1 THEN minGallop - 1 ELSE 1)

\* MergeHigh: one pass of the loop that takes one element at a time
MergeHighWonA(A, B, la, lb, out, nofWinsA, minGallop, stored) ==
  IF la = 0 THEN MergeHighSucceed(A, B, la, lb, out, stored)
  ELSE IF nofWinsA >= minGallop
  THEN Merging("gallop", la, lb, out, nofWinsA, 0, minGallop + 1, stored)
  ELSE Merging("oneByOne", la, lb, out, nofWinsA, 0, minGallop, stored)

MergeHighWonB(A, B, la, lb, out, nofWinsB, minGallop, stored) ==
  IF lb = 1 THEN MergeHighCopyA(A, B, la, lb, out, stored)
  ELSE IF nofWinsB >= minGallop
  THEN Merging("gallop", la, lb, out, 0, nofWinsB, minGallop + 1, stored)
  ELSE Merging("oneByOne", la, lb, out, 0, nofWinsB, minGallop, stored)

MergeHighOneByOne(A, B, la, lb, out, nofWinsA, nofWinsB, minGallop, stored) ==
  IF ComesBefore(B[lb], A[la])
  THEN MergeHighWonA(A, B, la - 1, lb, <<A[la]>> \o out, nofWinsA + 1,
                     minGallop, stored)
  ELSE MergeHighWonB(A, B, la, lb - 1, <<B[lb]>> \o out, nofWinsB + 1,
                     minGallop, stored)

\* MergeHigh of the runs A and B, A longer than B, at its start: the last
\* element of A goes last
MergeHigh(A, B, minGallop) ==
  IF Len(A) = 1
  THEN MergeHighSucceed(A, B, 0, Len(B), <<A[1]>>, minGallop)
  ELSE IF Len(B) = 1
  THEN MergeHighCopyA(A, B, Len(A) - 1, 1, <<A[Len(A)]>>, minGallop)
  ELSE Merging("oneByOne", Len(A) - 1, Len(B), <<A[Len(A)]>>, 0, 0,
               minGallop, minGallop)

\* one pass of the loop the merge m is in, of MergeLow (low) or MergeHigh
MergePass(A, B, low, m) ==
  IF m.label = "oneByOne"
  THEN IF low
       THEN MergeLowOneByOne(A, B, m.a, m.b, m.out, m.nofWinsA, m.nofWinsB,
                             m.minGallop, m.stored)
       ELSE MergeHighOneByOne(A, B, m.a, m.b, m.out, m.nofWinsA, m.nofWinsB,
                              m.minGallop, m.stored)
  ELSE IF low THEN MergeLowGallop(A, B, m.a, m.b, m.out, m.minGallop)
  ELSE MergeHighGallop(A, B, m.a, m.b, m.out, m.minGallop)

\* up to n passes of the loops of the merge m, the first half of them and
\* then the rest, until the merge is done
RECURSIVE MergePasses(_, _, _, _, _)
MergePasses(A, B, low, m, n) ==
  IF m.label = "done" THEN m
  ELSE IF n <= 1 THEN MergePass(A, B, low, m)
  ELSE MergePasses(A, B, low, MergePasses(A, B, low, m, n \div 2),
                   n - n \div 2)

\* the runs A and B merged: every pass merges an element at least
MergeOf(A, B, low, minGallop) ==
  MergePasses(A, B, low,
              IF low THEN MergeLow(A, B, minGallop)
              ELSE MergeHigh(A, B, minGallop),
              Len(A) + Len(B))

\* MergeAt once the elements of run A that come before run B (the first k)
\* and the elements of run B that come after run A (those after the first
\* lengthB) are known to be in their places
MergeTrimmedWith(A, B, k, lengthB, merged) ==
  Merged(SubSeq(A, 1, k) \o merged.values \o SubSeq(B, lengthB + 1, Len(B)),
         merged.minGallop)

MergeTrimmed(A, B, k, lengthB, restA, restB, minGallop) ==
  MergeTrimmedWith(A, B, k, lengthB,
                   MergeOf(restA, restB, Len(restA) <= Len(restB),
                           minGallop))

MergeTrimmedB(A, B, k, lengthB, minGallop) ==
  IF lengthB = 0 THEN Merged(A \o B, minGallop)
  ELSE MergeTrimmed(A, B, k, lengthB, SubSeq(A, k + 1, Len(A)),
                    SubSeq(B, 1, lengthB), minGallop)

MergeTrimmedA(A, B, k, minGallop) ==
  IF Len(A) - k = 0 THEN Merged(A \o B, minGallop)
  ELSE MergeTrimmedB(A, B, k,
                     Gallop(B, A[Len(A)], FALSE, 0, Len(B), Len(B) - 1),
                     minGallop)

\* the two runs A and B, one after the other in the array, merged
MergeRuns(A, B, minGallop) ==
  MergeTrimmedA(A, B, Gallop(A, B[1], TRUE, 0, Len(A), 0), minGallop)

\* the sum of the first n lengths of the pending runs
RECURSIVE RunsBefore(_, _)
RunsBefore(runs, n) == IF n = 0 THEN 0 ELSE RunsBefore(runs, n - 1) + runs[n]

\* the sort state: the array, the lengths of the pending runs, which lie
\* one after the other from the start of the array, and minGallop
SortState(values, runs, minGallop) ==
  [values |-> values, runs |-> runs, minGallop |-> minGallop]

\* MergeAt(i): the pending runs i and i + 1 merged into one
MergeAtWith(state, i, base, merged) ==
  SortState(SubSeq(state.values, 1, base) \o merged.values
              \o SubSeq(state.values,
                        base + state.runs[i] + state.runs[i + 1] + 1,
                        Len(state.values)),
            [j \in 1..(Len(state.runs) - 1) |->
               IF j < i THEN state.runs[j]
               ELSE IF j = i THEN state.runs[i] + state.runs[i + 1]
               ELSE state.runs[j + 1]],
            merged.minGallop)

MergeAtBase(state, i, base) ==
  MergeAtWith(state, i, base,
              MergeRuns(SubSeq(state.values, base + 1, base + state.runs[i]),
                        SubSeq(state.values, base + state.runs[i] + 1,
                               base + state.runs[i] + state.runs[i + 1]),
                        state.minGallop))

MergeAt(state, i) == MergeAtBase(state, i, RunsBefore(state.runs, i - 1))

\* RunInvariantEstablished for the pending runs n - 2, n - 1 and n
RunInvariantEstablished(runs, n) ==
  n < 3 \/ runs[n - 2] > runs[n - 1] + runs[n]

\* MergeCollapse: the pending runs merged until their lengths decrease fast
\* enough from the first to the last
RECURSIVE MergeCollapse(_)
MergeCollapseAt(state, n) ==
  IF ~RunInvariantEstablished(state.runs, n + 1)
       \/ ~RunInvariantEstablished(state.runs, n)
  THEN MergeCollapse(MergeAt(state, IF state.runs[n - 1] < state.runs[n + 1]
                                    THEN n - 1 ELSE n))
  ELSE IF state.runs[n] <= state.runs[n + 1]
  THEN MergeCollapse(MergeAt(state, n))
  ELSE state

MergeCollapse(state) ==
  IF Len(state.runs) < 2 THEN state
  ELSE MergeCollapseAt(state, Len(state.runs) - 1)

\* MergeForceCollapse: the pending runs merged until one is left
RECURSIVE MergeForceCollapse(_)
MergeForceCollapse(state) ==
  IF Len(state.runs) < 2 THEN state
  ELSE MergeForceCollapse(
         MergeAt(state,
                 IF Len(state.runs) > 2
                      /\ state.runs[Len(state.runs) - 2] < state.runs[Len(state.runs)]
                 THEN Len(state.runs) - 2
                 ELSE Len(state.runs) - 1))

\* the loop of ArrayTimSortImpl, low elements being in pending runs: the
\* next run is made, pushed and merged with the runs before it as
\* MergeCollapse asks
RECURSIVE TimSortFrom(_, _, _)
TimSortPush(state, low, minRunLength, run) ==
  TimSortFrom(MergeCollapse(SortState(SubSeq(state.values, 1, low) \o run.values,
                                      Append(state.runs, run.length),
                                      state.minGallop)),
              low + run.length, minRunLength)

TimSortFrom(state, low, minRunLength) ==
  IF low >= Len(state.values) THEN MergeForceCollapse(state).values
  ELSE TimSortPush(state, low, minRunLength,
                   NextRun(SubSeq(state.values, low + 1, Len(state.values)),
                           minRunLength))

\* [...returns].sort((a, b) => a - b); minGallop starts at kMinGallopWins,
\* which is 7
SortAscending(values) ==
  IF Len(values) < 2 THEN values
  ELSE TimSortFrom(SortState(values, <<>>, 7), 0,
                   ComputeMinRunLength(Len(values), 0))

\* the guard on a confidence level and on the discount rate of the
\* valuation models: confidence <= 0 || confidence >= 1
OutsideOpenUnit(rate) == F64Le(rate, F64Zero) \/ F64Le(F64One, rate)

\* the guard of calculatePresentValue: discountRate < 0 || discountRate > 1
OutsideClosedUnit(rate) == F64Lt(rate, F64Zero) \/ F64Lt(F64One, rate)

\* Math.floor((1 - confidence) * sortedReturns.length)
QuantileIndex(confidence, n) ==
  MathFloor(F64Mul(F64Sub(F64One, confidence), F64FromInt(n)))

\* sortedReturns[index], undefined (NaN when negated) at an index that is no
\* position of the array
QuantileElement(sortedReturns, index) ==
  IF ~F64IsNaN(index) /\ F64Le(F64Zero, index)
       /\ F64Lt(index, F64FromInt(Len(sortedReturns)))
  THEN sortedReturns[F64ToInt(index) + 1]
  ELSE F64NaN

\* -sortedReturns[index] || 0
QuantileLoss(sortedReturns, index) ==
  OrZero(F64Neg(QuantileElement(sortedReturns, index)))

\* calculateVaR(returns, confidence)
calculateVaR(rets, confidence) ==
  IF Len(rets) = 0 THEN Raised
  ELSE IF OutsideOpenUnit(confidence) THEN Raised
  ELSE Returned(QuantileLoss(SortAscending(rets),
                             QuantileIndex(confidence, Len(rets))))

\* the number of elements slice(0, end) takes of n: end without its
\* fraction, 0 for NaN, counted back from n when it is negative, and no
\* less than 0 and no more than n
SliceEnd(end, n) ==
  IF F64IsNaN(end) THEN 0
  ELSE IF F64Le(F64FromInt(n), end) THEN n
  ELSE IF F64Le(end, F64FromInt(-n)) THEN 0
  ELSE IF F64Lt(end, F64Zero) THEN n + F64ToInt(end)
  ELSE F64ToInt(end)

\* sortedReturns.slice(0, end)
SliceTo(sortedReturns, end) ==
  SubSeq(sortedReturns, 1, SliceEnd(end, Len(sortedReturns)))

\* .filter((r) => -r >= varValue)
TailReturns(slice, varValue) ==
  LET InTail(r) == F64Le(varValue, F64Neg(r))
  IN SelectSeq(slice, InTail)

\* the value calculateCVaR returns for its tailReturns
TailLoss(tailReturns, varValue) ==
  IF Len(tailReturns) = 0 THEN varValue
  ELSE F64Neg(F64Div(F64SumTo([i \in 1..Len(tailReturns) |->
                                 F64Abs(tailReturns[i])], Len(tailReturns)),
                     F64FromInt(Len(tailReturns))))

\* calculateCVaR from the sorted returns on
CVaRFrom(sortedReturns, thresholdIndex, varValue) ==
  TailLoss(TailReturns(SliceTo(sortedReturns, F64Add(thresholdIndex, F64One)),
                       varValue),
           varValue)

CVaROfSorted(sortedReturns, thresholdIndex) ==
  CVaRFrom(sortedReturns, thresholdIndex,
           QuantileLoss(sortedReturns, thresholdIndex))

\* calculateCVaR(returns, confidence)
calculateCVaR(rets, confidence) ==
  IF Len(rets) = 0 THEN Raised
  ELSE IF OutsideOpenUnit(confidence) THEN Raised
  ELSE Returned(CVaROfSorted(SortAscending(rets),
                             QuantileIndex(confidence, Len(rets))))

\* value / Math.pow(1 + rate, time)
Discounted(value, rate, time, pow) ==
  F64Div(value, pow[<<F64Add(F64One, rate), time>>])

\* the sum of flows[i] / Math.pow(1 + rate, i) for i = 1..n, added from the
\* left to 0
PresentValues(flows, rate, n, pow) ==
  F64SumTo([i \in 1..n |-> Discounted(flows[i], rate, F64FromInt(i), pow)], n)

\* the calls of Math.pow behind the present values of n flows
PresentValuePowCalls(rate, n) ==
  {<<F64Add(F64One, rate), F64FromInt(i)>> : i \in 1..n}

\* whether terminalMultiple and terminalYearFCF are both given
TerminalByMultiple(params) ==
  params.terminalMultiple.defined /\ params.terminalYearFCF.defined

\* terminalValue of calculateDCFValue
TerminalValue(params) ==
  IF TerminalByMultiple(params)
  THEN F64Mul(params.terminalYearFCF.value, params.terminalMultiple.value)
  ELSE F64Div(F64Mul(params.freeCashFlows[Len(params.freeCashFlows)],
                     F64Add(F64One, params.terminalGrowthRate)),
              F64Sub(params.discountRate, params.terminalGrowthRate))

\* calculateDCFValue(params); terminalGrowthRate is 0 when left out
calculateDCFValue(params, pow) ==
  IF Len(params.freeCashFlows) = 0 THEN Raised
  ELSE IF OutsideOpenUnit(params.discountRate) THEN Raised
  ELSE IF ~TerminalByMultiple(params)
          /\ F64Le(params.discountRate, params.terminalGrowthRate)
  THEN Raised
  ELSE Returned(F64Add(PresentValues(params.freeCashFlows, params.discountRate,
                                     Len(params.freeCashFlows), pow),
                       Discounted(TerminalValue(params), params.discountRate,
                                  F64FromInt(Len(params.freeCashFlows)), pow)))

\* the calls of Math.pow of calculateDCFValue
calculateDCFValuePowCalls(params) ==
  PresentValuePowCalls(params.discountRate, Len(params.freeCashFlows))

\* zeroGrowthDDM(dividend, discountRate)
zeroGrowthDDM(dividend, discountRate) ==
  IF OutsideOpenUnit(discountRate) THEN Raised
  ELSE IF F64Le(dividend, F64Zero) THEN Raised
  ELSE Returned(F64Div(dividend, discountRate))

\* constantGrowthDDM(currentDividend, growthRate, discountRate)
constantGrowthDDM(currentDividend, growthRate, discountRate) ==
  IF OutsideOpenUnit(discountRate) THEN Raised
  ELSE IF F64Le(discountRate, growthRate) THEN Raised
  ELSE IF F64Le(currentDividend, F64Zero) THEN Raised
  ELSE Returned(F64Div(F64Mul(currentDividend, F64Add(F64One, growthRate)),
                       F64Sub(discountRate, growthRate)))

\* the dividends of the years after those of grown, dividend *= 1 + rates[year]
\* each year, last being the dividend before them
RECURSIVE GrowDividends(_, _, _)
GrowNext(grown, next, rates) == GrowDividends(Append(grown, next), next, rates)

GrowDividends(grown, last, rates) ==
  IF Len(grown) >= Len(rates) THEN grown
  ELSE GrowNext(grown,
                F64Mul(last, F64Add(F64One, rates[Len(grown) + 1])),
                rates)

\* the dividend when the loops have ended
LastDividend(dividends, currentDividend) ==
  IF dividends = <<>> THEN currentDividend ELSE dividends[Len(dividends)]

\* dividend / Math.pow(1 + discountRate, offset + year) for each year; the
\* offset is left out when there is none
DividendValues(dividends, discountRate, offset, pow) ==
  [year \in 1..Len(dividends) |->
     Discounted(dividends[year], discountRate,
                IF offset.defined THEN F64Add(offset.value, F64FromInt(year))
                ELSE F64FromInt(year),
                pow)]

\* the terminal value, discounted over years
TerminalDividendValue(dividend, stableGrowthRate, discountRate, years, pow) ==
  Discounted(F64Div(F64Mul(dividend, F64Add(F64One, stableGrowthRate)),
                    F64Sub(discountRate, stableGrowthRate)),
             discountRate, years, pow)

\* the sum of the terms, added from the left to 0
SumOfTerms(terms) == F64SumTo(terms, Len(terms))

\* pvHighGrowthStage + pvTerminalValue
TwoStageValue(dividends, currentDividend, highGrowthYears, stableGrowthRate, discountRate, pow) ==
  F64Add(SumOfTerms(DividendValues(dividends, discountRate, Omitted, pow)),
         TerminalDividendValue(LastDividend(dividends, currentDividend),
                               stableGrowthRate, discountRate, highGrowthYears,
                               pow))

\* twoStageDDM(currentDividend, highGrowthRate, highGrowthYears,
\* stableGrowthRate, discountRate)
twoStageDDMThrows(currentDividend, highGrowthRate, highGrowthYears, stableGrowthRate, discountRate) ==
  \/ OutsideOpenUnit(discountRate)
  \/ F64Le(discountRate, highGrowthRate)
  \/ F64Le(discountRate, stableGrowthRate)
  \/ F64Le(currentDividend, F64Zero)
  \/ F64Le(highGrowthYears, F64Zero)

\* the loop over the years of high growth does not end for a number of
\* years of 2^53 or more, Infinity among them
twoStageDDM(currentDividend, highGrowthRate, highGrowthYears, stableGrowthRate, discountRate, pow) ==
  IF twoStageDDMThrows(currentDividend, highGrowthRate, highGrowthYears,
                       stableGrowthRate, discountRate)
  THEN Raised
  ELSE IF LoopNeverEnds(highGrowthYears) THEN NeverEnds
  ELSE Returned(TwoStageValue(
                  GrowDividends(<<>>, currentDividend,
                                [year \in 1..LoopTurns(highGrowthYears) |->
                                   highGrowthRate]),
                  currentDividend, highGrowthYears, stableGrowthRate,
                  discountRate, pow))

\* the calls of Math.pow of twoStageDDM: one for each year of high growth
\* and one for the terminal value
twoStageDDMPowCalls(currentDividend, highGrowthRate, highGrowthYears, stableGrowthRate, discountRate) ==
  IF twoStageDDMThrows(currentDividend, highGrowthRate, highGrowthYears,
                       stableGrowthRate, discountRate)
       \/ LoopNeverEnds(highGrowthYears)
  THEN {}
  ELSE PresentValuePowCalls(discountRate, LoopTurns(highGrowthYears))
         \cup {<<F64Add(F64One, discountRate), highGrowthYears>>}

\* currentGrowthRate = highGrowthRate - growthStep * year for each year of
\* the transition
TransitionRates(highGrowthRate, growthStep, transitionYears) ==
  [year \in 1..LoopTurns(transitionYears) |->
     F64Sub(highGrowthRate, F64Mul(growthStep, F64FromInt(year)))]

\* pv when the dividends of both stages are known: every term added to pv in
\* turn
ThreeStageValue(high, transition, lastDividend, highGrowthYears, transitionYears, stableGrowthRate, discountRate, pow) ==
  SumOfTerms(DividendValues(high, discountRate, Omitted, pow)
             \o DividendValues(transition, discountRate,
                               Supplied(highGrowthYears), pow)
             \o <<TerminalDividendValue(lastDividend, stableGrowthRate,
                                        discountRate,
                                        F64Add(highGrowthYears, transitionYears),
                                        pow)>>)

ThreeStageTransition(high, afterHigh, transition, highGrowthYears, transitionYears, stableGrowthRate, discountRate, pow) ==
  ThreeStageValue(high, transition, LastDividend(transition, afterHigh),
                  highGrowthYears, transitionYears, stableGrowthRate,
                  discountRate, pow)

ThreeStageHigh(high, afterHigh, rates, highGrowthYears, transitionYears, stableGrowthRate, discountRate, pow) ==
  ThreeStageTransition(high, afterHigh, GrowDividends(<<>>, afterHigh, rates),
                       highGrowthYears, transitionYears, stableGrowthRate,
                       discountRate, pow)

ThreeStageFrom(high, currentDividend, highGrowthRate, highGrowthYears, transitionYears, stableGrowthRate, discountRate, pow) ==
  ThreeStageHigh(high, LastDividend(high, currentDividend),
                 TransitionRates(highGrowthRate,
                                 F64Div(F64Sub(highGrowthRate, stableGrowthRate),
                                        F64Add(transitionYears, F64One)),
                                 transitionYears),
                 highGrowthYears, transitionYears, stableGrowthRate,
                 discountRate, pow)

\* threeStageDDM(currentDividend, highGrowthRate, highGrowthYears,
\* transitionGrowthRate, transitionYears, stableGrowthRate, discountRate);
\* transitionGrowthRate is not read
threeStageDDMThrows(currentDividend, highGrowthYears, transitionYears, stableGrowthRate, discountRate) ==
  \/ OutsideOpenUnit(discountRate)
  \/ F64Le(discountRate, stableGrowthRate)
  \/ F64Le(currentDividend, F64Zero)
  \/ F64Le(highGrowthYears, F64Zero)
  \/ F64Le(transitionYears, F64Zero)

\* neither loop ends for a number of years of 2^53 or more
threeStageDDM(currentDividend, highGrowthRate, highGrowthYears, transitionGrowthRate, transitionYears, stableGrowthRate, discountRate, pow) ==
  IF threeStageDDMThrows(currentDividend, highGrowthYears, transitionYears,
                         stableGrowthRate, discountRate)
  THEN Raised
  ELSE IF LoopNeverEnds(highGrowthYears) \/ LoopNeverEnds(transitionYears)
  THEN NeverEnds
  ELSE Returned(ThreeStageFrom(
                  GrowDividends(<<>>, currentDividend,
                                [year \in 1..LoopTurns(highGrowthYears) |->
                                   highGrowthRate]),
                  currentDividend, highGrowthRate, highGrowthYears,
                  transitionYears, stableGrowthRate, discountRate, pow))

\* the calls of Math.pow of threeStageDDM: one for each year of the two
\* stages and one for the terminal value
threeStageDDMPowCalls(currentDividend, highGrowthYears, transitionYears, stableGrowthRate, discountRate) ==
  IF threeStageDDMThrows(currentDividend, highGrowthYears, transitionYears,
                         stableGrowthRate, discountRate)
       \/ LoopNeverEnds(highGrowthYears) \/ LoopNeverEnds(transitionYears)
  THEN {}
  ELSE PresentValuePowCalls(discountRate, LoopTurns(highGrowthYears))
         \cup {<<F64Add(F64One, discountRate),
                 F64Add(highGrowthYears, F64FromInt(year))>> :
                 year \in 1..LoopTurns(transitionYears)}
         \cup {<<F64Add(F64One, discountRate),
                 F64Add(highGrowthYears, transitionYears)>>}

\* calculatePresentValue(cashFlows, discountRate, periodsPerYear)
calculatePresentValue(cashFlows, discountRate, periodsPerYear, pow) ==
  IF Len(cashFlows) = 0 THEN Raised
  ELSE IF OutsideClosedUnit(discountRate) THEN Raised
  ELSE Returned(PresentValues(cashFlows, F64Div(discountRate, periodsPerYear),
                              Len(cashFlows), pow))

\* the calls of Math.pow of calculatePresentValue
calculatePresentValuePowCalls(cashFlows, discountRate, periodsPerYear) ==
  PresentValuePowCalls(F64Div(discountRate, periodsPerYear), Len(cashFlows))

\* a function without a loop, called: it returns or raises in one step
Finish(outcome) ==
  /\ calcPc = "call"
  /\ calcPc' = outcome.exit
  /\ calcOut' = outcome.value
  /\ UNCHANGED <<calcFn, calcArgs, calcLocals, exceptMeasures>>

calculateVaRCall ==
  /\ calcFn = "calculateVaR"
  /\ Finish(calculateVaR(calcArgs.returns, calcArgs.confidence))

calculateCVaRCall ==
  /\ calcFn = "calculateCVaR"
  /\ Finish(calculateCVaR(calcArgs.returns, calcArgs.confidence))

calculateDCFValueCall ==
  /\ calcFn = "calculateDCFValue"
  /\ calcPc = "call"
  /\ \E pow \in PowTables(calculateDCFValuePowCalls(calcArgs)) :
       Finish(calculateDCFValue(calcArgs, pow))

zeroGrowthDDMCall ==
  /\ calcFn = "zeroGrowthDDM"
  /\ Finish(zeroGrowthDDM(calcArgs.dividend, calcArgs.discountRate))

constantGrowthDDMCall ==
  /\ calcFn = "constantGrowthDDM"
  /\ Finish(constantGrowthDDM(calcArgs.currentDividend, calcArgs.growthRate,
                              calcArgs.discountRate))

twoStageDDMCall ==
  /\ calcFn = "twoStageDDM"
  /\ calcPc = "call"
  /\ \E pow \in PowTables(twoStageDDMPowCalls(calcArgs.currentDividend,
                  calcArgs.highGrowthRate, calcArgs.highGrowthYears,
                  calcArgs.stableGrowthRate, calcArgs.discountRate)) :
       Finish(twoStageDDM(calcArgs.currentDividend, calcArgs.highGrowthRate,
                          calcArgs.highGrowthYears, calcArgs.stableGrowthRate,
                          calcArgs.discountRate, pow))

threeStageDDMCall ==
  /\ calcFn = "threeStageDDM"
  /\ calcPc = "call"
  /\ \E pow \in PowTables(threeStageDDMPowCalls(calcArgs.currentDividend,
                  calcArgs.highGrowthYears, calcArgs.transitionYears,
                  calcArgs.stableGrowthRate, calcArgs.discountRate)) :
       Finish(threeStageDDM(calcArgs.currentDividend, calcArgs.highGrowthRate,
                            calcArgs.highGrowthYears,
                            calcArgs.transitionGrowthRate,
                            calcArgs.transitionYears, calcArgs.stableGrowthRate,
                            calcArgs.discountRate, pow))

calculatePresentValueCall ==
  /\ calcFn = "calculatePresentValue"
  /\ calcPc = "call"
  /\ \E pow \in PowTables(calculatePresentValuePowCalls(calcArgs.cashFlows,
                  calcArgs.discountRate, calcArgs.periodsPerYear)) :
       Finish(calculatePresentValue(calcArgs.cashFlows, calcArgs.discountRate,
                                    calcArgs.periodsPerYear, pow))

\* the last price in the place of the larger one
NextMaxPriceLatest(maxPrice, price) == price

\* if (prices[i] > maxPrice) maxPrice = prices[i]
NextMaxPrice(maxPrice, price) == IF F64Gt(price, maxPrice) THEN price ELSE maxPrice

\* if (drawdown > maxDrawdown) maxDrawdown = drawdown
NextMaxDrawdown(maxDrawdown, drawdown) ==
  IF F64Gt(drawdown, maxDrawdown) THEN drawdown ELSE maxDrawdown

\* the locals after the pass on price, maxPrice being the peak already raised
DrawdownPass(locals, price, maxPrice) ==
  [i           |-> locals.i + 1,
   maxPrice    |-> maxPrice,
   maxDrawdown |-> NextMaxDrawdown(locals.maxDrawdown,
                                   F64Div(F64Sub(maxPrice, price), maxPrice))]

\* calculateMaxDrawdown(prices) up to its loop: the empty series raises, a
\* single price returns 0
MaxDrawdownStart ==
  /\ calcFn = "calculateMaxDrawdown"
  /\ calcPc = "call"
  /\ IF Len(calcArgs.prices) = 0
     THEN /\ calcPc' = "raised"
          /\ UNCHANGED <<calcLocals, calcOut>>
     ELSE IF Len(calcArgs.prices) = 1
     THEN /\ calcPc' = "returned"
          /\ calcOut' = F64Zero
          /\ UNCHANGED calcLocals
     ELSE /\ calcPc' = "loop"
          /\ calcLocals' = [i |-> 1, maxPrice |-> calcArgs.prices[1],
                            maxDrawdown |-> F64Zero]
          /\ UNCHANGED calcOut
  /\ UNCHANGED <<calcFn, calcArgs, exceptMeasures>>

\* one pass of the loop, on prices[i]; i counts from 0 as in the code
MaxDrawdownIteration ==
  /\ calcFn = "calculateMaxDrawdown"
  /\ calcPc = "loop"
  /\ calcLocals.i < Len(calcArgs.prices)
  /\ calcLocals' =
       DrawdownPass(calcLocals, calcArgs.prices[calcLocals.i + 1],
                    NextMaxPrice(calcLocals.maxPrice,
                                 calcArgs.prices[calcLocals.i + 1]))
  /\ UNCHANGED <<calcFn, calcArgs, calcPc, calcOut, exceptMeasures>>

\* return maxDrawdown
MaxDrawdownReturn ==
  /\ calcFn = "calculateMaxDrawdown"
  /\ calcPc = "loop"
  /\ calcLocals.i >= Len(calcArgs.prices)
  /\ calcPc' = "returned"
  /\ calcOut' = calcLocals.maxDrawdown
  /\ UNCHANGED <<calcFn, calcArgs, calcLocals, exceptMeasures>>

(* calculateCovariance and calculateCovarianceMatrix (src/unnamed/part_030) *)

\* whether calculateCovariance throws: lengths that differ, or no values
calculateCovarianceThrows(x, y) == Len(x) # Len(y) \/ Len(x) = 0

\* covariance / (x.length - 1), covariance being the sum of the products
\* (x[i] - meanX) * (y[i] - meanY)
CovarianceAbout(x, y, meanX, meanY) ==
  F64Div(F64SumTo([i \in 1..Len(x) |->
                     F64Mul(F64Sub(x[i], meanX), F64Sub(y[i], meanY))], Len(x)),
         F64FromInt(Len(x) - 1))

\* the sample covariance of two series of one length, at least 1; the
\* division by x.length - 1 is 0 / 0 for one value
calculateCovariance(x, y) == CovarianceAbout(x, y, MeanOf(x), MeanOf(y))

\* the outcome of calculateCovarianceMatrix: an error for no rows, for two
\* rows of different lengths and for whatever calculateCovariance throws
\* on, the n x n matrix otherwise
calculateCovarianceMatrix(returnsMatrix) ==
  IF Len(returnsMatrix) = 0 THEN Raised
  ELSE IF \E i, j \in 1..Len(returnsMatrix) :
            Len(returnsMatrix[i]) # Len(returnsMatrix[j])
    THEN Raised
  ELSE IF \E i, j \in 1..Len(returnsMatrix) :
            calculateCovarianceThrows(returnsMatrix[i], returnsMatrix[j])
    THEN Raised
  ELSE Returned([i \in 1..Len(returnsMatrix) |->
                   [j \in 1..Len(returnsMatrix) |->
                      calculateCovariance(returnsMatrix[i], returnsMatrix[j])]])

calculateCovarianceMatrixCall ==
  /\ calcFn = "calculateCovarianceMatrix"
  /\ Finish(calculateCovarianceMatrix(calcArgs.returnsMatrix))

(* calculateMacaulayDuration (src/unnamed/part_003) and calculateConvexity  *)
(* (convexity.ts).  periods = yearsToMaturity * couponFrequency need not be *)
(* whole.                                                                   *)

\* the cash flow of period i: the coupon, and the face value with it when
\* i === periods
DurationCashFlow(faceValue, payment, periods, i) ==
  IF F64Eq(F64FromInt(i), periods) THEN F64Add(faceValue, payment) ELSE payment

\* the present value of the cash flow of every period of the loop
DurationPresentValues(faceValue, payment, periods, periodicYield, pow) ==
  [i \in 1..LoopTurns(periods) |->
     Discounted(DurationCashFlow(faceValue, payment, periods, i),
                periodicYield, F64FromInt(i), pow)]

\* presentValueSum when the loop of calculateMacaulayDuration has ended
DurationPresentValueSum(faceValue, couponRate, yieldRate, yearsToMaturity, couponFrequency, pow) ==
  SumOfTerms(DurationPresentValues(faceValue,
               couponPayment(faceValue, couponRate, couponFrequency),
               F64Mul(yearsToMaturity, couponFrequency),
               F64Div(yieldRate, couponFrequency), pow))

\* the guard of calculateMacaulayDuration and of calculateConvexity
DurationThrows(faceValue, yearsToMaturity, couponFrequency) ==
  \/ F64Le(faceValue, F64Zero)
  \/ F64Le(yearsToMaturity, F64Zero)
  \/ F64Le(couponFrequency, F64Zero)

\* weightedSum / presentValueSum, unless presentValueSum === 0
DurationOfSums(weightedSum, presentValueSum) ==
  IF F64IsZero(presentValueSum) THEN Raised
  ELSE Returned(F64Div(weightedSum, presentValueSum))

\* the loop of calculateMacaulayDuration and what follows it; weight is
\* i / couponFrequency
DurationOfValues(presentValues, couponFrequency) ==
  DurationOfSums(
    SumOfTerms([i \in 1..Len(presentValues) |->
                  F64Mul(presentValues[i],
                         F64Div(F64FromInt(i), couponFrequency))]),
    SumOfTerms(presentValues))

\* calculateMacaulayDuration from couponPayment, periods and periodicYield
DurationFrom(faceValue, payment, periods, periodicYield, couponFrequency, pow) ==
  IF NearZero(periodicYield)
  THEN Returned(F64Div(F64Add(periods, F64One),
                       F64Mul(F64Two, couponFrequency)))
  ELSE IF LoopNeverEnds(periods) THEN NeverEnds
  ELSE DurationOfValues(DurationPresentValues(faceValue, payment, periods,
                                              periodicYield, pow),
                        couponFrequency)

\* the outcome of calculateMacaulayDuration, in years
calculateMacaulayDuration(faceValue, couponRate, yieldRate, yearsToMaturity, couponFrequency, pow) ==
  IF DurationThrows(faceValue, yearsToMaturity, couponFrequency) THEN Raised
  ELSE DurationFrom(faceValue,
                    couponPayment(faceValue, couponRate, couponFrequency),
                    F64Mul(yearsToMaturity, couponFrequency),
                    F64Div(yieldRate, couponFrequency),
                    couponFrequency, pow)

\* the calls of Math.pow of the loop over the periods: none when the guard
\* throws, at a periodic yield of about 0 and in a loop that does not end
DurationLoopPowCalls(faceValue, yearsToMaturity, couponFrequency, periods, periodicYield) ==
  IF DurationThrows(faceValue, yearsToMaturity, couponFrequency)
       \/ NearZero(periodicYield) \/ LoopNeverEnds(periods)
  THEN {}
  ELSE PresentValuePowCalls(periodicYield, LoopTurns(periods))

\* the calls of Math.pow of calculateMacaulayDuration
calculateMacaulayDurationPowCalls(faceValue, yieldRate, yearsToMaturity, couponFrequency) ==
  DurationLoopPowCalls(faceValue, yearsToMaturity, couponFrequency,
                       F64Mul(yearsToMaturity, couponFrequency),
                       F64Div(yieldRate, couponFrequency))

\* the cash flow of period i in calculateConvexity
ConvexityCashFlow(faceValue, payment, periods, i) ==
  IF F64Eq(F64FromInt(i), periods) THEN F64Add(faceValue, payment) ELSE payment

\* the present value of the cash flow of every period of the loop of
\* calculateConvexity
ConvexityPresentValues(faceValue, payment, periods, periodicYield, pow) ==
  [i \in 1..LoopTurns(periods) |->
     Discounted(ConvexityCashFlow(faceValue, payment, periods, i),
                periodicYield, F64FromInt(i), pow)]

\* presentValueSum when the loop of calculateConvexity has ended
ConvexityPresentValueSum(faceValue, couponRate, yieldRate, yearsToMaturity, couponFrequency, pow) ==
  SumOfTerms(ConvexityPresentValues(faceValue,
               couponPayment(faceValue, couponRate, couponFrequency),
               F64Mul(yearsToMaturity, couponFrequency),
               F64Div(yieldRate, couponFrequency), pow))

\* weightedSum / (presentValueSum * Math.pow(1 + periodicYield, 2)), unless
\* presentValueSum === 0
ConvexityOfSums(weightedSum, presentValueSum, periodicYield, pow) ==
  IF F64IsZero(presentValueSum) THEN Raised
  ELSE Returned(F64Div(weightedSum,
                       F64Mul(presentValueSum,
                              pow[<<F64Add(F64One, periodicYield), F64Two>>])))

\* the loop of calculateConvexity and what follows it; timeWeight is
\* (i * (i + 1)) / Math.pow(couponFrequency, 2)
ConvexityOfValues(presentValues, periodicYield, couponFrequency, pow) ==
  ConvexityOfSums(
    SumOfTerms([i \in 1..Len(presentValues) |->
                  F64Mul(presentValues[i],
                         F64Div(F64FromInt(i * (i + 1)),
                                pow[<<couponFrequency, F64Two>>]))]),
    SumOfTerms(presentValues),
    periodicYield, pow)

\* calculateConvexity from couponPayment, periods and periodicYield
ConvexityFrom(faceValue, payment, periods, periodicYield, couponFrequency, pow) ==
  IF NearZero(periodicYield)
  THEN Returned(F64Div(F64Div(F64Mul(periods, F64Add(periods, F64One)), F64Two),
                       pow[<<couponFrequency, F64Two>>]))
  ELSE IF LoopNeverEnds(periods) THEN NeverEnds
  ELSE ConvexityOfValues(ConvexityPresentValues(faceValue, payment, periods,
                                                periodicYield, pow),
                         periodicYield, couponFrequency, pow)

\* the outcome of calculateConvexity
calculateConvexity(faceValue, couponRate, yieldRate, yearsToMaturity, couponFrequency, pow) ==
  IF DurationThrows(faceValue, yearsToMaturity, couponFrequency) THEN Raised
  ELSE ConvexityFrom(faceValue,
                     couponPayment(faceValue, couponRate, couponFrequency),
                     F64Mul(yearsToMaturity, couponFrequency),
                     F64Div(yieldRate, couponFrequency),
                     couponFrequency, pow)

\* the squares calculateConvexity can ask Math.pow for: that of the
\* frequency and that of 1 + periodicYield
ConvexitySquarePowCalls(faceValue, yearsToMaturity, couponFrequency, periods, periodicYield) ==
  IF DurationThrows(faceValue, yearsToMaturity, couponFrequency) THEN {}
  ELSE {<<couponFrequency, F64Two>>, <<F64Add(F64One, periodicYield), F64Two>>}

\* the calls of Math.pow of calculateConvexity
calculateConvexityPowCalls(faceValue, yieldRate, yearsToMaturity, couponFrequency) ==
  DurationLoopPowCalls(faceValue, yearsToMaturity, couponFrequency,
                       F64Mul(yearsToMaturity, couponFrequency),
                       F64Div(yieldRate, couponFrequency))
    \cup ConvexitySquarePowCalls(faceValue, yearsToMaturity, couponFrequency,
                                 F64Mul(yearsToMaturity, couponFrequency),
                                 F64Div(yieldRate, couponFrequency))

calculateMacaulayDurationCall ==
  /\ calcFn = "calculateMacaulayDuration"
  /\ calcPc = "call"
  /\ \E pow \in PowTables(calculateMacaulayDurationPowCalls(calcArgs.faceValue,
                  calcArgs.yieldRate, calcArgs.yearsToMaturity,
                  calcArgs.couponFrequency)) :
       Finish(calculateMacaulayDuration(calcArgs.faceValue, calcArgs.couponRate,
                                        calcArgs.yieldRate,
                                        calcArgs.yearsToMaturity,
                                        calcArgs.couponFrequency, pow))

calculateConvexityCall ==
  /\ calcFn = "calculateConvexity"
  /\ calcPc = "call"
  /\ \E pow \in PowTables(calculateConvexityPowCalls(calcArgs.faceValue,
                  calcArgs.yieldRate, calcArgs.yearsToMaturity,
                  calcArgs.couponFrequency)) :
       Finish(calculateConvexity(calcArgs.faceValue, calcArgs.couponRate,
                                 calcArgs.yieldRate, calcArgs.yearsToMaturity,
                                 calcArgs.couponFrequency, pow))

(* The binomial lattice (src/unnamed/part_001).  S, K, T, r and sigma are   *)
(* doubles and n, the number of steps, is a whole number.  optionValues[i]  *)
(* of the code is optionValues[i + 1] here.  f holds dt's factors u, d, p   *)
(* and discount, and pow the answers of Math.pow.                           *)

\* whether binomialTree throws
binomialTreeThrows(S, K, T, sigma, n) ==
  \/ F64Le(S, F64Zero)
  \/ F64Le(K, F64Zero)
  \/ F64Le(T, F64Zero)
  \/ F64Le(sigma, F64Zero)
  \/ n <= 0

\* u, d, p and discount of binomialTree (lines 32 to 35), dt being T / n
binomialTreeFactorsOfDown(u, d, r, dt) ==
  [u |-> u, d |-> d,
   p |-> F64Div(F64Sub(MathExp(F64Mul(r, dt)), d), F64Sub(u, d)),
   discount |-> MathExp(F64Mul(F64Neg(r), dt))]

binomialTreeFactorsOfUp(u, r, dt) ==
  binomialTreeFactorsOfDown(u, F64Div(F64One, u), r, dt)

binomialTreeFactorsOfStep(r, sigma, dt) ==
  binomialTreeFactorsOfUp(MathExp(F64Mul(sigma, F64Sqrt(dt))), r, dt)

binomialTreeFactors(T, r, sigma, n) ==
  binomialTreeFactorsOfStep(r, sigma, F64Div(T, F64FromInt(n)))

\* u, d, p and discount of europeanOption (lines 129 to 132)
europeanOptionFactorsOfDown(u, d, r, dt) ==
  [u |-> u, d |-> d,
   p |-> F64Div(F64Sub(MathExp(F64Mul(r, dt)), d), F64Sub(u, d)),
   discount |-> MathExp(F64Mul(F64Neg(r), dt))]

europeanOptionFactorsOfUp(u, r, dt) ==
  europeanOptionFactorsOfDown(u, F64Div(F64One, u), r, dt)

europeanOptionFactorsOfStep(r, sigma, dt) ==
  europeanOptionFactorsOfUp(MathExp(F64Mul(sigma, F64Sqrt(dt))), r, dt)

europeanOptionFactors(T, r, sigma, n) ==
  europeanOptionFactorsOfStep(r, sigma, F64Div(T, F64FromInt(n)))

\* S * Math.pow(u, ups) * Math.pow(d, downs)
NodeStockPrice(S, u, d, ups, downs, pow) ==
  F64Mul(F64Mul(S, pow[<<u, F64FromInt(ups)>>]), pow[<<d, F64FromInt(downs)>>])

\* the calls of Math.pow of a lattice of n steps: the powers 0 to n of u
\* and of d
LatticePowCallsOf(f, n) ==
  {<<f.u, F64FromInt(k)>> : k \in 0..n} \cup {<<f.d, F64FromInt(k)>> : k \in 0..n}

\* the calls of Math.pow of binomialTree and of europeanOption, which
\* raises the same powers at expiry only
LatticePowCalls(S, K, T, r, sigma, n) ==
  IF F64Le(S, F64Zero) \/ F64Le(K, F64Zero) \/ F64Le(T, F64Zero)
       \/ F64Le(sigma, F64Zero) \/ n <= 0
  THEN {}
  ELSE LatticePowCallsOf(binomialTreeFactors(T, r, sigma, n), n)

\* Math.max(0, stockPrice - K) for a call, Math.max(0, K - stockPrice) for a put
ExerciseValue(optionType, stockPrice, K) ==
  IF optionType = "call" THEN MathMax(F64Zero, F64Sub(stockPrice, K))
  ELSE MathMax(F64Zero, F64Sub(K, stockPrice))

\* p * optionValueUp + (1 - p) * optionValueDown, not discounted
RiskNeutralValueUndiscounted(discount, pUp, optionValueUp, optionValueDown) ==
  F64Add(F64Mul(pUp, optionValueUp),
         F64Mul(F64Sub(F64One, pUp), optionValueDown))

\* discount * (p * optionValueUp + (1 - p) * optionValueDown)
RiskNeutralValue(discount, pUp, optionValueUp, optionValueDown) ==
  F64Mul(discount,
         F64Add(F64Mul(pUp, optionValueUp),
                F64Mul(F64Sub(F64One, pUp), optionValueDown)))

\* the option values at expiry that binomialTree pushes, i = 0..n
binomialTreeTerminalValues(S, K, f, n, optionType, pow) ==
  [i \in 1..(n + 1) |->
     ExerciseValue(optionType,
                   NodeStockPrice(S, f.u, f.d, n - (i - 1), i - 1, pow), K)]

\* the option values at expiry that europeanOption pushes, i = 0..n
europeanOptionTerminalValues(S, K, f, n, optionType, pow) ==
  [i \in 1..(n + 1) |->
     ExerciseValue(optionType,
                   NodeStockPrice(S, f.u, f.d, n - (i - 1), i - 1, pow), K)]

\* optionValues[i] = value, stored one entry further down
StoreNodeBelow(optionValues, i, value) ==
  [optionValues EXCEPT ![i + 2] = value]

\* optionValues[i] = value
StoreNode(optionValues, i, value) ==
  [optionValues EXCEPT ![i + 1] = value]

\* the body of the inner loop of binomialTree at node i of level j:
\* optionValues[i] is overwritten with the larger of the discounted
\* expectation and the exercise value
binomialTreeNode(optionValues, S, K, f, optionType, j, i, pow) ==
  StoreNode(optionValues, i,
            MathMax(RiskNeutralValue(f.discount, f.p, optionValues[i + 1],
                                     optionValues[i + 2]),
                    ExerciseValue(optionType,
                                  NodeStockPrice(S, f.u, f.d, j - i, i, pow), K)))

\* the inner loop of binomialTree at level j, from node i on
RECURSIVE binomialTreeLevel(_, _, _, _, _, _, _, _)
binomialTreeLevel(optionValues, S, K, f, optionType, j, i, pow) ==
  IF i > j THEN optionValues
  ELSE binomialTreeLevel(
         binomialTreeNode(optionValues, S, K, f, optionType, j, i, pow),
         S, K, f, optionType, j, i + 1, pow)

\* the outer loop of binomialTree, from level j down to level 0
RECURSIVE binomialTreeBackward(_, _, _, _, _, _, _)
binomialTreeBackward(optionValues, S, K, f, optionType, j, pow) ==
  IF j < 0 THEN optionValues
  ELSE binomialTreeBackward(
         binomialTreeLevel(optionValues, S, K, f, optionType, j, 0, pow),
         S, K, f, optionType, j - 1, pow)

\* binomialTree once dt, u, d, p and discount are known
binomialTreeOfFactors(S, K, f, n, optionType, pow) ==
  binomialTreeBackward(binomialTreeTerminalValues(S, K, f, n, optionType, pow),
                       S, K, f, optionType, n - 1, pow)[1]

\* the outcome of binomialTree, f being its u, d, p and discount
binomialTreeGiven(S, K, T, sigma, n, optionType, f, pow) ==
  IF binomialTreeThrows(S, K, T, sigma, n) THEN Raised
  ELSE Returned(binomialTreeOfFactors(S, K, f, n, optionType, pow))

\* the outcome of binomialTree
binomialTree(S, K, T, r, sigma, n, optionType, pow) ==
  binomialTreeGiven(S, K, T, sigma, n, optionType,
                    binomialTreeFactors(T, r, sigma, n), pow)

\* the outcome of americanOption: return binomialTree(S, K, T, r, sigma, n,
\* optionType)
americanOption(S, K, T, r, sigma, n, optionType, pow) ==
  binomialTree(S, K, T, r, sigma, n, optionType, pow)

\* the body of the inner loop of europeanOption at node i
europeanOptionNode(optionValues, f, i) ==
  StoreNode(optionValues, i,
            RiskNeutralValue(f.discount, f.p, optionValues[i + 1],
                             optionValues[i + 2]))

\* the inner loop of europeanOption at level j, from node i on
RECURSIVE europeanOptionLevel(_, _, _, _)
europeanOptionLevel(optionValues, f, j, i) ==
  IF i > j THEN optionValues
  ELSE europeanOptionLevel(europeanOptionNode(optionValues, f, i),
                           f, j, i + 1)

\* the outer loop of europeanOption, from level j down to level 0
RECURSIVE europeanOptionBackward(_, _, _)
europeanOptionBackward(optionValues, f, j) ==
  IF j < 0 THEN optionValues
  ELSE europeanOptionBackward(europeanOptionLevel(optionValues, f, j, 0),
                              f, j - 1)

\* europeanOption once dt, u, d, p and discount are known
europeanOptionOfFactors(S, K, f, n, optionType, pow) ==
  europeanOptionBackward(europeanOptionTerminalValues(S, K, f, n, optionType,
                                                      pow),
                         f, n - 1)[1]

\* whether europeanOption throws
europeanOptionThrows(S, K, T, sigma, n) ==
  \/ F64Le(S, F64Zero)
  \/ F64Le(K, F64Zero)
  \/ F64Le(T, F64Zero)
  \/ F64Le(sigma, F64Zero)
  \/ n <= 0

\* the outcome of europeanOption, f being its u, d, p and discount
europeanOptionGiven(S, K, T, sigma, n, optionType, f, pow) ==
  IF europeanOptionThrows(S, K, T, sigma, n) THEN Raised
  ELSE Returned(europeanOptionOfFactors(S, K, f, n, optionType, pow))

\* the outcome of europeanOption
europeanOption(S, K, T, r, sigma, n, optionType, pow) ==
  europeanOptionGiven(S, K, T, sigma, n, optionType,
                      europeanOptionFactors(T, r, sigma, n), pow)

\* the answers Math.pow can give to the call of the lattice in calcArgs
LatticePowTables ==
  PowTables(LatticePowCalls(calcArgs.S, calcArgs.K, calcArgs.T, calcArgs.r,
                            calcArgs.sigma, calcArgs.n))

binomialTreeCall ==
  /\ calcFn = "binomialTree"
  /\ calcPc = "call"
  /\ \E pow \in LatticePowTables :
       Finish(binomialTree(calcArgs.S, calcArgs.K, calcArgs.T, calcArgs.r,
                           calcArgs.sigma, calcArgs.n, calcArgs.optionType, pow))

americanOptionCall ==
  /\ calcFn = "americanOption"
  /\ calcPc = "call"
  /\ \E pow \in LatticePowTables :
       Finish(americanOption(calcArgs.S, calcArgs.K, calcArgs.T, calcArgs.r,
                             calcArgs.sigma, calcArgs.n, calcArgs.optionType,
                             pow))

europeanOptionCall ==
  /\ calcFn = "europeanOption"
  /\ calcPc = "call"
  /\ \E pow \in LatticePowTables :
       Finish(europeanOption(calcArgs.S, calcArgs.K, calcArgs.T, calcArgs.r,
                             calcArgs.sigma, calcArgs.n, calcArgs.optionType,
                             pow))

-----------------------------------------------------------------------------
(* Portfolio optimization: the numbers of the calls *)

\* the array of F(1), ..., F(n), each element computed once: Array.map, fill
RECURSIVE ArrayOf(_, _)
ArrayOf(F(_), n) == IF n = 0 THEN <<>> ELSE Append(ArrayOf(F, n - 1), F(n))

\* learningRate = 0.01 (markowitz.ts line 54, efficient-frontier line 87),
\* the double 0x1.47AE147AE147Bp-7
learningRate == Double(<<5243, 7864, 11796, 1310>>, -59)

\* the 0.01 of constraints.ts line 27
SumTolerance == Double(<<5243, 7864, 11796, 1310>>, -59)

\* Math.random() returns a double of [0, 1); the draws explored are its
\* least double 0, its largest double 1 - 2^-53, and the halvings 1/2, 1/4,
\* ... down to 2^-RandomHalvings
RandomHalvings == 2
RandomDraws ==
  {F64Zero, Double(<<16383, 16383, 16383, 2047>>, -53)}
    \cup {Double(<<0, 0, 0, 1024>>, -52 - k) : k \in 1..RandomHalvings}

\* the 0.5 of Math.random() - 0.5
Half == Double(<<0, 0, 0, 1024>>, -53)

\* (Math.random() - 0.5) * learningRate
Perturbation(u) == F64Mul(F64Sub(u, Half), learningRate)

-----------------------------------------------------------------------------
(* constraints.ts *)

\* weights.reduce((a, b) => a + b, 0) over the first n weights
RECURSIVE SumWeightsTo(_, _)
SumWeightsTo(weights, n) ==
  IF n = 0 THEN F64Zero ELSE F64Add(SumWeightsTo(weights, n - 1), weights[n])

\* const sum = weights.reduce((a, b) => a + b, 0)
SumWeights(weights) == SumWeightsTo(weights, Len(weights))

\* Math.abs(sum - 1) > 0.01
SumOff(weights) ==
  F64Gt(F64Abs(F64Sub(SumWeights(weights), F64One)), SumTolerance)

\* checkWeightConstraints exported from constraints.ts
checkWeightConstraints(weights, c) ==
  IF SumOff(weights) THEN FALSE
  ELSE IF c.longOnly /\ \E i \in DOMAIN weights : F64Lt(weights[i], F64Zero)
       THEN FALSE
  ELSE IF c.hasMinWeight /\ \E i \in DOMAIN weights : F64Lt(weights[i], c.minWeight)
       THEN FALSE
  ELSE IF c.hasMaxWeight /\ \E i \in DOMAIN weights : F64Gt(weights[i], c.maxWeight)
       THEN FALSE
  ELSE IF c.hasMin /\ Len(weights) # Len(c.min) THEN FALSE
  ELSE IF c.hasMin /\ \E i \in DOMAIN weights : F64Lt(weights[i], c.min[i])
       THEN FALSE
  ELSE IF c.hasMax /\ Len(weights) # Len(c.max) THEN FALSE
  ELSE IF c.hasMax /\ \E i \in DOMAIN weights : F64Gt(weights[i], c.max[i])
       THEN FALSE
  ELSE TRUE

\* normalizeWeights throws when sum === 0
normalizeWeightsThrows(weights) == F64Eq(SumWeights(weights), F64Zero)

\* normalizeWeights: weights.map((w) => w / sum)
normalizeWeights(weights) ==
  LET sum == SumWeights(weights)
  IN ArrayOf(LAMBDA i : F64Div(weights[i], sum), Len(weights))

-----------------------------------------------------------------------------
(* efficient-frontier (src/unnamed/part_006) *)

\* the private checkWeightConstraints of the efficient-frontier file
checkWeightConstraintsPrivate(weights, c) ==
  IF SumOff(weights) THEN FALSE
  ELSE IF c.longOnly /\ \E i \in DOMAIN weights : F64Lt(weights[i], F64Zero)
       THEN FALSE
  ELSE IF c.hasMinWeight /\ \E i \in DOMAIN weights : F64Lt(weights[i], c.minWeight)
       THEN FALSE
  ELSE IF c.hasMaxWeight /\ \E i \in DOMAIN weights : F64Gt(weights[i], c.maxWeight)
       THEN FALSE
  ELSE TRUE

calculatePortfolioExpectedReturnThrows(rets, weights) == Len(rets) # Len(weights)

\* returns.reduce((sum, r, i) => sum + r * weights[i], 0), the first n terms
RECURSIVE ExpectedReturnTo(_, _, _)
ExpectedReturnTo(rets, weights, n) ==
  IF n = 0 THEN F64Zero
  ELSE F64Add(ExpectedReturnTo(rets, weights, n - 1),
              F64Mul(rets[n], weights[n]))

calculatePortfolioExpectedReturn(rets, weights) ==
  ExpectedReturnTo(rets, weights, Len(rets))

\* the check of the number of rows alone
calculatePortfolioVarianceThrowsRowsOnly(cov, weights) == Len(cov) # Len(weights)

calculatePortfolioVarianceThrows(cov, weights) ==
  \/ Len(cov) # Len(weights)
  \/ \E i \in DOMAIN cov : Len(cov[i]) # Len(weights)

\* variance += weights[i] * weights[j] * covarianceMatrix[i][j], the first k
\* passes of the double loop, rows first
RECURSIVE VarianceTo(_, _, _)
VarianceTo(cov, weights, k) ==
  IF k = 0 THEN F64Zero
  ELSE LET i == (k - 1) \div Len(weights) + 1
           j == ((k - 1) % Len(weights)) + 1
       IN F64Add(VarianceTo(cov, weights, k - 1),
                 F64Mul(F64Mul(weights[i], weights[j]), cov[i][j]))

calculatePortfolioVariance(cov, weights) ==
  VarianceTo(cov, weights, Len(weights) * Len(weights))

\* Math.sqrt(variance): NaN for a negative variance
Volatility(variance) == F64Sqrt(variance)

\* new Array(n).fill(1 / n)
EqualWeights(n) ==
  LET share == F64Div(F64One, F64FromInt(n))
  IN ArrayOf(LAMBDA i : share, n)

-----------------------------------------------------------------------------
(* markowitz.ts *)

\* calculateSharpeRatio: 0 when the volatility === 0, NaN when it is NaN
calculateSharpeRatio(rets, cov, weights, riskFreeRate) ==
  LET portfolioReturn     == calculatePortfolioExpectedReturn(rets, weights)
      portfolioVolatility == Volatility(calculatePortfolioVariance(cov, weights))
  IN IF F64Eq(portfolioVolatility, F64Zero) THEN F64Zero
     ELSE F64Div(F64Sub(portfolioReturn, riskFreeRate), portfolioVolatility)

\* params.riskFreeRate of the calls explored: 0.02, the double
\* 0x1.47AE147AE147Bp-6
RiskFreeRate == Double(<<5243, 7864, 11796, 1310>>, -58)

\* which search a call runs: optimizePortfolio dispatches on its two targets
Variant ==
  IF optimizer = "optimizePortfolio"
  THEN IF targetReturn.defined /\ targetRisk.defined THEN "invalid"
       ELSE IF targetReturn.defined THEN "targetReturn"
       ELSE IF targetRisk.defined THEN "targetRisk"
       ELSE "maxSharpe"
  ELSE IF optimizer = "calculateMaxSharpePortfolio" THEN "maxSharpe"
  ELSE IF optimizer = "calculateEfficientPortfolio" THEN "efficient"
  ELSE IF optimizer = "calculateMinimumVariancePortfolio" THEN "minVariance"
  ELSE "direct"

\* const n: covarianceMatrix.length in calculateMinimumVariancePortfolio,
\* returns.length everywhere else
NumAssets == IF Variant = "minVariance" THEN Len(covarianceMatrix) ELSE Len(returns)

\* the returns the search reads: new Array(n).fill(0) in the minimum-variance search
SearchReturns ==
  IF Variant = "minVariance" THEN ArrayOf(LAMBDA i : F64Zero, NumAssets)
  ELSE returns

\* the constraint checker each file uses
CandidateAllowed(weights) ==
  \/ ~constraints.defined
  \/ IF Variant \in {"efficient", "minVariance"}
     THEN checkWeightConstraintsPrivate(weights, constraints)
     ELSE checkWeightConstraints(weights, constraints)

\* const targetVariance = targetRisk * targetRisk
targetVariance == F64Mul(targetRisk.value, targetRisk.value)

\* the explicit length check at the top of calculateMaxSharpePortfolio and
\* calculateEfficientPortfolio
LengthCheckThrows ==
  /\ Variant \in {"maxSharpe", "efficient"}
  /\ Len(returns) # Len(covarianceMatrix)

\* the tracked measure left as it was
TrackedValueKept(weights) == bestValue

\* the measure each search tracks, of a weight vector
TrackedValue(weights) ==
  IF Variant = "maxSharpe"
  THEN calculateSharpeRatio(SearchReturns, covarianceMatrix, weights, RiskFreeRate)
  ELSE IF Variant = "targetRisk"
  THEN calculatePortfolioExpectedReturn(SearchReturns, weights)
  ELSE calculatePortfolioVariance(covarianceMatrix, weights)

\* whether computing the tracked measure of a weight vector throws
TrackedValueThrows(weights) ==
  IF Variant = "maxSharpe"
  THEN \/ calculatePortfolioExpectedReturnThrows(SearchReturns, weights)
       \/ calculatePortfolioVarianceThrows(covarianceMatrix, weights)
  ELSE IF Variant = "targetRisk"
  THEN calculatePortfolioExpectedReturnThrows(SearchReturns, weights)
  ELSE calculatePortfolioVarianceThrows(covarianceMatrix, weights)

\* whether evaluating a candidate that passed the constraints throws
CandidateThrows(weights) ==
  IF Variant = "minVariance"
  THEN calculatePortfolioVarianceThrows(covarianceMatrix, weights)
  ELSE \/ calculatePortfolioExpectedReturnThrows(SearchReturns, weights)
       \/ calculatePortfolioVarianceThrows(covarianceMatrix, weights)

\* Math.abs(value - target)
Distance(value, target) == F64Abs(F64Sub(value, target))

\* the acceptance test of each search
Accepts(candidate) ==
  LET expectedReturn == calculatePortfolioExpectedReturn(SearchReturns, candidate)
      variance       == calculatePortfolioVariance(covarianceMatrix, candidate)
      bestRet        == calculatePortfolioExpectedReturn(SearchReturns, bestWeights)
  IN CASE Variant = "maxSharpe" ->
            F64Gt(calculateSharpeRatio(SearchReturns, covarianceMatrix, candidate,
                                       RiskFreeRate), bestValue)
       [] Variant = "minVariance" -> F64Lt(variance, bestValue)
       [] Variant = "targetReturn" ->
            /\ F64Lt(Distance(expectedReturn, targetReturn.value),
                     Distance(bestRet, targetReturn.value))
            /\ F64Lt(variance, bestValue)
       [] Variant = "efficient" ->
            /\ F64Le(Distance(expectedReturn, targetReturn.value),
                     Distance(bestRet, targetReturn.value))
            /\ F64Lt(variance, bestValue)
       [] Variant = "targetRisk" ->
            /\ F64Lt(Distance(variance, targetVariance),
                     Distance(calculatePortfolioVariance(covarianceMatrix, bestWeights),
                              targetVariance))
            /\ F64Gt(expectedReturn, bestValue)

NoResult == [weights |-> <<>>, expectedReturn |-> F64Zero, variance |-> F64Zero,
             volatility |-> F64Zero, hasSharpe |-> FALSE, sharpeRatio |-> F64Zero]

\* the PortfolioResult each search builds after its loop
BuildResult ==
  LET variance == IF Variant = "targetRisk"
                  THEN calculatePortfolioVariance(covarianceMatrix, bestWeights)
                  ELSE IF Variant = "maxSharpe"
                  THEN calculatePortfolioVariance(covarianceMatrix, bestWeights)
                  ELSE bestValue
  IN [weights        |-> bestWeights,
      expectedReturn |-> IF Variant = "targetRisk" THEN bestValue
                         ELSE calculatePortfolioExpectedReturn(SearchReturns, bestWeights),
      variance       |-> variance,
      volatility     |-> Volatility(variance),
      hasSharpe      |-> Variant = "maxSharpe",
      sharpeRatio    |-> IF Variant = "maxSharpe" THEN bestValue ELSE F64Zero]

\* whether building the result throws (the target-risk search recomputes the
\* variance after its loop)
BuildResultThrows ==
  /\ Variant = "targetRisk"
  /\ calculatePortfolioVarianceThrows(covarianceMatrix, bestWeights)

Raise == /\ pc' = "raised"
         /\ UNCHANGED <<optimizer, returns, covarianceMatrix, constraints,
                        targetReturn, targetRisk, bestWeights, bestValue, iter,
                        result>>

\* the code of a search before its loop: argument checks, the equal-weight
\* start and its tracked measure
SearchStart ==
  /\ pc = "call"
  /\ IF \/ Variant = "invalid"
        \/ LengthCheckThrows
        \/ normalizeWeightsThrows(EqualWeights(NumAssets))
        \/ TrackedValueThrows(normalizeWeights(EqualWeights(NumAssets)))
     THEN Raise
     ELSE /\ bestWeights' = normalizeWeights(EqualWeights(NumAssets))
          /\ bestValue' = TrackedValue(normalizeWeights(EqualWeights(NumAssets)))
          /\ iter' = 0
          /\ pc' = "loop"
          /\ UNCHANGED <<optimizer, returns, covarianceMatrix, constraints,
                         targetReturn, targetRisk, result>>

\* bestWeights.map((w, i) => w + perturbation[i])
Perturbed(draws) ==
  ArrayOf(LAMBDA i : F64Add(bestWeights[i], Perturbation(draws[i])), NumAssets)

\* one iteration of the loop, with the values Math.random() returned
SearchIteration ==
  /\ pc = "loop"
  /\ iter < MaxIter
  /\ \E draws \in [1..NumAssets -> RandomDraws] :
       LET perturbed == Perturbed(draws)
       IN IF normalizeWeightsThrows(perturbed) THEN Raise
          ELSE LET candidateWeights == normalizeWeights(perturbed)
               IN IF ~CandidateAllowed(candidateWeights)
                  THEN /\ iter' = iter + 1
                       /\ UNCHANGED <<optimizer, returns, covarianceMatrix,
                                      constraints, targetReturn, targetRisk,
                                      bestWeights, bestValue, pc, result>>
                  ELSE IF CandidateThrows(candidateWeights) THEN Raise
                  ELSE /\ iter' = iter + 1
                       /\ IF Accepts(candidateWeights)
                          THEN /\ bestWeights' = candidateWeights
                               /\ bestValue' = TrackedValue(candidateWeights)
                          ELSE UNCHANGED <<bestWeights, bestValue>>
                       /\ UNCHANGED <<optimizer, returns, covarianceMatrix,
                                      constraints, targetReturn, targetRisk, pc,
                                      result>>

\* the code after the loop
SearchReturn ==
  /\ pc = "loop"
  /\ iter = MaxIter
  /\ IF BuildResultThrows THEN Raise
     ELSE /\ result' = BuildResult
          /\ pc' = "returned"
          /\ UNCHANGED <<optimizer, returns, covarianceMatrix, constraints,
                         targetReturn, targetRisk, bestWeights, bestValue, iter>>

Search == (SearchStart \/ SearchIteration \/ SearchReturn) /\ UNCHANGED exceptOptimizer

\* calculateMaxSharpePortfolio, called directly or as optimizePortfolio's default
calculateMaxSharpePortfolio == Variant = "maxSharpe" /\ Search

\* optimizePortfolio with both targets
optimizePortfolioBothTargets == Variant = "invalid" /\ Search

optimizeForTargetReturn == Variant = "targetReturn" /\ Search

optimizeForTargetRisk == Variant = "targetRisk" /\ Search

calculateEfficientPortfolio == Variant = "efficient" /\ Search

calculateMinimumVariancePortfolio == Variant = "minVariance" /\ Search

\* calculatePortfolioExpectedReturn(returns, weights) called on its own, the
\* weights held in bestWeights and the number returned in bestValue
calculatePortfolioExpectedReturnCall ==
  /\ optimizer = "calculatePortfolioExpectedReturn"
  /\ pc = "call"
  /\ IF calculatePortfolioExpectedReturnThrows(returns, bestWeights)
     THEN Raise
     ELSE /\ bestValue' = calculatePortfolioExpectedReturn(returns, bestWeights)
          /\ pc' = "value"
          /\ UNCHANGED <<optimizer, returns, covarianceMatrix, constraints,
                         targetReturn, targetRisk, bestWeights, iter, result>>
  /\ UNCHANGED exceptOptimizer

\* calculatePortfolioVariance(covarianceMatrix, weights) called on its own
calculatePortfolioVarianceCall ==
  /\ optimizer = "calculatePortfolioVariance"
  /\ pc = "call"
  /\ IF calculatePortfolioVarianceThrows(covarianceMatrix, bestWeights)
     THEN Raise
     ELSE /\ bestValue' = calculatePortfolioVariance(covarianceMatrix, bestWeights)
          /\ pc' = "value"
          /\ UNCHANGED <<optimizer, returns, covarianceMatrix, constraints,
                         targetReturn, targetRisk, bestWeights, iter, result>>
  /\ UNCHANGED exceptOptimizer

-----------------------------------------------------------------------------
(* The calls explored *)

Undefined == [defined |-> FALSE, value |-> F64Zero]
Given(v) == [defined |-> TRUE, value |-> v]

\* the numbers of a list of hundredths, as the literals 0.05, 0.12, ... denote them
DoublesOf(s) == ArrayOf(LAMBDA i : F64Dec(s[i], 2), Len(s))

Calls ==
  { [fn |-> "calculateMaxSharpePortfolio", tr |-> Undefined, tk |-> Undefined],
    [fn |-> "optimizePortfolio", tr |-> Undefined, tk |-> Undefined],
    [fn |-> "optimizePortfolio", tr |-> Given(F64Dec(9, 2)), tk |-> Undefined],
    [fn |-> "optimizePortfolio", tr |-> Undefined, tk |-> Given(F64Dec(25, 2))],
    [fn |-> "optimizePortfolio", tr |-> Given(F64Dec(9, 2)),
     tk |-> Given(F64Dec(15, 2))],
    [fn |-> "calculateEfficientPortfolio", tr |-> Given(F64Dec(9, 2)),
     tk |-> Undefined],
    [fn |-> "calculateMinimumVariancePortfolio", tr |-> Undefined, tk |-> Undefined] }

Market(rets, cov) ==
  [returns |-> DoublesOf(rets),
   cov |-> ArrayOf(LAMBDA i : DoublesOf(cov[i]), Len(cov))]

\* expected returns and covariance matrices, in hundredths: one asset, two
\* assets
DistinctReturnMarkets ==
  { Market(<<8>>, << <<4>> >>),
    Market(<<5, 12>>, << <<4, 1>>, <<1, 9>> >>) }

\* two assets of the same expected return 0, two assets whose expected
\* return is the target 0.09
EqualReturnMarkets ==
  { Market(<<0, 0>>, << <<4, 1>>, <<1, 9>> >>),
    Market(<<9, 9>>, << <<4, 0>>, <<0, 5>> >>) }

WellFormedMarkets == DistinctReturnMarkets \cup EqualReturnMarkets

\* three assets, for the two portfolio measures
ThreeAssets == Market(<<5, 8, 12>>, << <<4, 1, 0>>, <<1, 6, 2>>, <<0, 2, 9>> >>)

\* a returns array shorter than the matrix, a ragged matrix, a matrix of two
\* rows and three columns, no asset
IllFormedMarkets ==
  { Market(<<5>>, << <<4, 1>>, <<1, 9>> >>),
    Market(<<5, 12>>, << <<4, 1>>, <<1, 9, 2>> >>),
    Market(<<5, 12>>, << <<4, 1, 0>>, <<1, 6, 2>> >>),
    Market(<<>>, <<>>) }

Markets == WellFormedMarkets \cup IllFormedMarkets

NoConstraints ==
  [defined |-> FALSE, longOnly |-> FALSE,
   hasMinWeight |-> FALSE, minWeight |-> F64Zero,
   hasMaxWeight |-> FALSE, maxWeight |-> F64Zero,
   hasMin |-> FALSE, min |-> <<>>, hasMax |-> FALSE, max |-> <<>>]

EmptyConstraints == [NoConstraints EXCEPT !.defined = TRUE]

LongOnly == [EmptyConstraints EXCEPT !.longOnly = TRUE]

\* a floor of 2 under every weight, which no vector that sums to about 1
\* satisfies: every candidate is skipped
FloorOfTwo == [EmptyConstraints EXCEPT !.hasMinWeight = TRUE, !.minWeight = F64Two]

Max(a, b) == IF a >= b THEN a ELSE b

\* the constraint sets explored for n assets, each one satisfiable: none,
\* long-only, a scalar cap 0.1 above the equal share, a scalar floor 0.1
\* below it, a per-asset floor of 0.6 on the first asset, and a per-asset cap
\* on the first asset 0.005 above the equal share
ConstraintSetsFor(n) ==
  { NoConstraints,
    LongOnly,
    [EmptyConstraints EXCEPT !.hasMaxWeight = TRUE,
       !.maxWeight = F64Dec(1000 \div Max(n, 1) + 100, 3)],
    [EmptyConstraints EXCEPT !.hasMinWeight = TRUE,
       !.minWeight = F64Dec(1000 \div Max(n, 1) - 100, 3)],
    [EmptyConstraints EXCEPT !.hasMin = TRUE,
       !.min = ArrayOf(LAMBDA i : IF i = 1 THEN F64Dec(6, 1) ELSE F64Zero, n)],
    [EmptyConstraints EXCEPT !.hasMax = TRUE,
       !.max = ArrayOf(LAMBDA i : IF i = 1
                                  THEN F64Dec(1000 \div Max(n, 1) + 5, 3)
                                  ELSE F64One, n)] }

\* the constraint sets explored with a market: all of them when its returns
\* differ, none when they are equal; none, long-only and the floor of 2 when
\* it is ill formed
ConstraintSetsOf(m) ==
  IF m \in DistinctReturnMarkets THEN ConstraintSetsFor(Len(m.returns))
  ELSE IF m \in EqualReturnMarkets THEN {NoConstraints}
  ELSE {NoConstraints, LongOnly, FloorOfTwo}

\* the markets explored with a call: those of equal returns only with the
\* searches for a target return
MarketsOf(call) ==
  IF call.tr.defined /\ ~call.tk.defined THEN Markets
  ELSE Markets \ EqualReturnMarkets

\* the weight vectors handed to the two portfolio measures: equal weights
\* on one, two and three assets
DirectWeights == {normalizeWeights(EqualWeights(n)) : n \in 1..3}

Init ==
  /\ \/ /\ \E call \in Calls :
             /\ optimizer = call.fn
             /\ targetReturn = call.tr
             /\ targetRisk = call.tk
             /\ \E m \in MarketsOf(call) :
                  /\ returns = m.returns
                  /\ covarianceMatrix = m.cov
                  /\ constraints \in ConstraintSetsOf(m)
        /\ bestWeights = <<>>
     \/ /\ optimizer \in {"calculatePortfolioExpectedReturn",
                          "calculatePortfolioVariance"}
        /\ targetReturn = Undefined
        /\ targetRisk = Undefined
        /\ \E m \in Markets \cup {ThreeAssets} :
             /\ returns = m.returns
             /\ covarianceMatrix = m.cov
        /\ constraints = NoConstraints
        /\ bestWeights \in DirectWeights
  /\ bestValue = F64Zero
  /\ iter = 0
  /\ pc = "call"
  /\ result = NoResult
  /\ OptionsIdle
  /\ BondsIdle
  /\ RegressionIdle
  /\ MeasuresIdle

Next ==
  \/ calculateMaxSharpePortfolio
  \/ optimizePortfolioBothTargets
  \/ optimizeForTargetReturn
  \/ optimizeForTargetRisk
  \/ calculateEfficientPortfolio
  \/ calculateMinimumVariancePortfolio
  \/ calculatePortfolioExpectedReturnCall
  \/ calculatePortfolioVarianceCall

Spec == Init /\ [][Next]_vars

-----------------------------------------------------------------------------
(* Claims about the optimizers *)

\* C1 (as stated): the weights of every returned PortfolioResult satisfy all
\* the constraints the caller supplied: the sum, long-only, the scalar bounds
\* and the per-asset min and max vectors.
C1_ReturnedWeightsSatisfyConstraints ==
  (pc = "returned" /\ constraints.defined)
    => checkWeightConstraints(result.weights, constraints)

\* C12: dimension mismatches raise: calculatePortfolioExpectedReturn returns
\* a number only for returns and weights of one length,
\* calculatePortfolioVariance only for a matrix of n rows of n entries,
\* n = weights.length, and an optimizer returns a PortfolioResult only when
\* the matrix is square and the returns it was given are as many as its rows.
C12_DimensionMismatchRaises ==
  /\ (pc = "value" /\ optimizer = "calculatePortfolioExpectedReturn") =>
       Len(returns) = Len(bestWeights)
  /\ (pc = "value" /\ optimizer = "calculatePortfolioVariance") =>
       /\ Len(covarianceMatrix) = Len(bestWeights)
       /\ \A i \in DOMAIN covarianceMatrix :
            Len(covarianceMatrix[i]) = Len(bestWeights)
  /\ pc = "returned" =>
       /\ \A i \in DOMAIN covarianceMatrix :
            Len(covarianceMatrix[i]) = Len(covarianceMatrix)
       /\ Variant # "minVariance" => Len(returns) = Len(covarianceMatrix)

\* the target-risk search, which has no length check of its own and computes
\* no variance before its loop, has raised on one return and a 2x2 matrix
\* after a loop that skipped every candidate: the variance computed after
\* the loop is the first to read the matrix
C12_Witness ==
  /\ pc = "raised"
  /\ Variant = "targetRisk"
  /\ Len(returns) = 1
  /\ Len(covarianceMatrix) = 2
  /\ constraints = FloorOfTwo
  /\ iter = MaxIter
  /\ bestWeights = normalizeWeights(EqualWeights(1))

\* the candidates an iteration can draw from the current bestWeights, those
\* whose sum is not 0 and whose measures can be computed
Candidates ==
  {normalizeWeights(Perturbed(draws)) :
     draws \in {d \in [1..NumAssets -> RandomDraws] :
                  /\ ~normalizeWeightsThrows(Perturbed(d))
                  /\ ~CandidateThrows(normalizeWeights(Perturbed(d)))}}

\* whether the weights pass every check the constraint set asks for: the
\* sum within 0.01 of 1, long-only, the scalar bounds, the per-asset bounds
PassesAllChecks(weights, c) ==
  /\ F64Le(Distance(SumWeights(weights), F64One), SumTolerance)
  /\ c.longOnly => \A i \in DOMAIN weights : F64Le(F64Zero, weights[i])
  /\ c.hasMinWeight => \A i \in DOMAIN weights : F64Le(c.minWeight, weights[i])
  /\ c.hasMaxWeight => \A i \in DOMAIN weights : F64Le(weights[i], c.maxWeight)
  /\ c.hasMin => /\ Len(weights) = Len(c.min)
                 /\ \A i \in DOMAIN weights : F64Le(c.min[i], weights[i])
  /\ c.hasMax => /\ Len(weights) = Len(c.max)
                 /\ \A i \in DOMAIN weights : F64Le(weights[i], c.max[i])

\* C21: the checkWeightConstraints exported from constraints.ts and the
\* private one of the efficient-frontier file return the same boolean for
\* every weight vector and constraint set, true only if the sum is within
\* 0.01 of 1 and the long-only, scalar and per-asset checks all pass.
C21_CheckersAgree ==
  (pc = "loop" /\ constraints.defined) =>
    \A candidate \in Candidates \cup {bestWeights} :
      /\ checkWeightConstraints(candidate, constraints)
           = checkWeightConstraintsPrivate(candidate, constraints)
      /\ checkWeightConstraints(candidate, constraints)
           => PassesAllChecks(candidate, constraints)
      /\ checkWeightConstraintsPrivate(candidate, constraints)
           => PassesAllChecks(candidate, constraints)

\* whether the candidate is strictly closer to the target return and of
\* strictly lower variance than the current best
StrictlyCloserAndLower(candidate) ==
  /\ F64Lt(Distance(calculatePortfolioExpectedReturn(returns, candidate),
                    targetReturn.value),
           Distance(calculatePortfolioExpectedReturn(returns, bestWeights),
                    targetReturn.value))
  /\ F64Lt(calculatePortfolioVariance(covarianceMatrix, candidate),
           calculatePortfolioVariance(covarianceMatrix, bestWeights))

\* C22: from the same best weights and the same candidate,
\* calculateEfficientPortfolio and optimizeForTargetReturn both accept or
\* both reject, and each accepts only a candidate strictly closer to the
\* target return and of strictly lower variance than the current best.
C22_SameAcceptanceRule ==
  (pc = "loop" /\ Variant \in {"efficient", "targetReturn"}) =>
    \A candidate \in Candidates :
      Accepts(candidate) <=> StrictlyCloserAndLower(candidate)

\* C23: in every optimizer an iteration changes the tracked objective only
\* by strict improvement (bestSharpe and bestReturn only rise, bestVariance
\* only falls), and an iteration whose candidate violates the constraints or
\* does not improve leaves bestWeights and the tracked objective unchanged.
ImprovesOrKeeps ==
  (pc = "loop" /\ pc' = "loop") =>
    /\ Variant \in {"maxSharpe", "targetRisk"} => F64Le(bestValue, bestValue')
    /\ Variant \in {"minVariance", "targetReturn", "efficient"} =>
         F64Le(bestValue', bestValue)
    /\ (bestWeights' # bestWeights \/ bestValue' # bestValue) =>
         /\ bestValue' # bestValue
         /\ constraints.defined =>
              PassesAllChecks(bestWeights', constraints)

C23_ObjectiveOnlyImproves == [][ImprovesOrKeeps]_vars

\* the sum of the numbers of a sequence, added one by one to 0 from the
\* first on
RECURSIVE SumInOrder(_)
SumInOrder(terms) ==
  IF terms = <<>> THEN F64Zero
  ELSE F64Add(SumInOrder(SubSeq(terms, 1, Len(terms) - 1)), terms[Len(terms)])

\* the weighted sum of the asset returns
WeightedSum(rets, weights) ==
  SumInOrder([i \in 1..Len(rets) |-> F64Mul(rets[i], weights[i])])

\* the terms w_i * w_j * cov[i][j] of the rows 1..i, row after row
RECURSIVE QuadraticTerms(_, _, _)
QuadraticTerms(cov, weights, i) ==
  IF i = 0 THEN <<>>
  ELSE QuadraticTerms(cov, weights, i - 1)
         \o [j \in 1..Len(weights) |->
               F64Mul(F64Mul(weights[i], weights[j]), cov[i][j])]

\* the quadratic form of the weights with the covariance matrix
QuadraticForm(cov, weights) ==
  SumInOrder(QuadraticTerms(cov, weights, Len(weights)))

\* the Sharpe ratio of the weights: the excess of the weighted sum over the
\* risk-free rate, over the square root of the quadratic form, 0 when that
\* root is 0
SharpeOf(rets, cov, weights) ==
  IF F64Eq(F64Sqrt(QuadraticForm(cov, weights)), F64Zero) THEN F64Zero
  ELSE F64Div(F64Sub(WeightedSum(rets, weights), RiskFreeRate),
              F64Sqrt(QuadraticForm(cov, weights)))

\* the asset returns of the call, zeros for calculateMinimumVariancePortfolio
CallReturns ==
  IF optimizer = "calculateMinimumVariancePortfolio"
  THEN [i \in 1..Len(covarianceMatrix) |-> F64Zero]
  ELSE returns

\* the measure the search of the call tracks, of its current bestWeights
MeasureOfBest ==
  IF optimizer \in {"calculateMaxSharpePortfolio", "optimizePortfolio"}
       /\ ~targetReturn.defined /\ ~targetRisk.defined
  THEN SharpeOf(CallReturns, covarianceMatrix, bestWeights)
  ELSE IF optimizer = "optimizePortfolio" /\ targetRisk.defined
  THEN WeightedSum(CallReturns, bestWeights)
  ELSE QuadraticForm(covarianceMatrix, bestWeights)

\* C29: throughout every optimizer loop the tracked value equals its measure
\* recomputed on the current bestWeights, and each returned PortfolioResult
\* has variance equal to the quadratic form of its weights, expectedReturn
\* equal to the weighted sum of the asset returns (the zeros that
\* calculateMinimumVariancePortfolio, which is given none, fills in),
\* volatility equal to the square root of variance, and sharpeRatio, when
\* present, equal to the Sharpe ratio of its weights.
C29_ResultConsistentWithWeights ==
  /\ pc = "loop" => bestValue = MeasureOfBest
  /\ pc = "returned" =>
       /\ result.weights = bestWeights
       /\ result.variance = QuadraticForm(covarianceMatrix, result.weights)
       /\ result.expectedReturn = WeightedSum(CallReturns, result.weights)
       /\ result.volatility = F64Sqrt(result.variance)
       /\ result.hasSharpe =>
            result.sharpeRatio
              = SharpeOf(CallReturns, covarianceMatrix, result.weights)
       /\ result.hasSharpe
            <=> (optimizer \in {"calculateMaxSharpePortfolio", "optimizePortfolio"}
                   /\ ~targetReturn.defined /\ ~targetRisk.defined)

\* the target-risk search has returned weights other than its start, the
\* expected return it tracked and the variance it recomputed after the loop
C29_Witness ==
  /\ pc = "returned"
  /\ Variant = "targetRisk"
  /\ Len(result.weights) = 2
  /\ result.weights # normalizeWeights(EqualWeights(2))
  /\ result.expectedReturn = bestValue
  /\ F64Gt(result.variance, F64Zero)

-----------------------------------------------------------------------------
(* Option pricing: the calls explored *)

\* spot and strike prices, one of each not positive
SpotPrices == {F64Zero, F64FromInt(100)}
StrikePrices == {F64FromInt(-5), F64FromInt(90), F64FromInt(100)}

\* times to expiry in years, rates and volatilities
Expiries == {F64Zero, F64Quarter, F64One}
Rates == {F64Dec(-125, 3), F64Zero, F64Dec(5, 2), F64Dec(125, 3)}
Volatilities == {F64Zero, F64Dec(2, 1), F64Half}

\* market prices, tolerances and iteration caps of the implied-volatility
\* search
MarketPrices == {F64FromInt(-1), F64Zero, F64FromInt(8), F64Dec(1045, 2)}
Tolerances == {F64Dec(1, 6), F64Dec(1, 2)}
IterationCaps == {0, 2, 100}

NoSearch == <<>>

OptionInit ==
  /\ OptimizerIdle
  /\ BondsIdle
  /\ RegressionIdle
  /\ MeasuresIdle
  /\ optionPc = "call"
  /\ optionOut = <<>>
  /\ \/ /\ optionFn = "blackScholes"
        /\ option \in [S : SpotPrices, K : StrikePrices, T : Expiries,
                       r : Rates, sigma : Volatilities,
                       optionType : {"call", "put"}]
        /\ iv = NoSearch
     \/ /\ optionFn = "calculateImpliedVolatility"
        /\ option \in [S : SpotPrices, K : StrikePrices, T : Expiries,
                       r : {F64Dec(5, 2)},
                       optionType : {"call", "put"}]
        /\ iv \in [marketPrice : MarketPrices, tolerance : Tolerances,
                   maxIterations : IterationCaps]

OptionNext ==
  \/ blackScholesCall
  \/ calculateImpliedVolatilityCall

OptionSpec == OptionInit /\ [][OptionNext]_vars

-----------------------------------------------------------------------------
(* Bonds: the calls explored *)

\* tolerance = 1e-6 and maxIterations = 100, the defaults of calculateYTM
DefaultYTMTolerance == Double(<<11661, 727, 12154, 1073>>, -72)
DefaultYTMMaxIterations == 100

\* face values, coupon rates, years and coupon frequencies; a face value, a
\* number of years and a frequency of 0 fail the guards
FaceValues == {F64Zero, F64FromInt(100), F64FromInt(1000)}
CouponRates == {F64Zero, F64Dec(1, 11), F64Dec(4, 10), F64Dec(5, 2)}
Maturities == {F64Zero, F64One, F64FromInt(5)}
Frequencies == {F64Zero, F64One, F64Two, F64FromInt(4)}

\* yields: two on each side of 0 inside the window |y / f| < 1e-10, one just
\* outside it, negative and positive ones far from it, the coupon rates among
\* them
Yields ==
  {F64Dec(-5, 2), F64Dec(-1, 11), F64Zero, F64Dec(1, 11), F64Dec(4, 10),
   F64Dec(5, 2), F64Dec(8, 2), F64One}

\* the yields at which a bond is priced before calculateYTM is asked for the
\* yield of that price: a bond of one year at each of them, a bond of five
\* years at -0.9, where the price is so far above the face value that the
\* first step of the search is clamped to -1, and at its coupon rate
RoundTripYields == {F64Dec(-9, 1), F64Dec(-5, 2), F64Dec(5, 2), F64Dec(8, 2)}
RoundTripQuoted(quote) ==
  \/ quote.yearsToMaturity = F64One
  \/ quote.yieldRate = F64Dec(-9, 1)
  \/ quote.yieldRate = quote.couponRate

\* quotes handed to calculateYTM as they are: a face value of 1e-12 (its
\* price hardly moves with the yield), prices below, near and far above the
\* face value, 0 failing the guard, and short and default iteration caps,
\* the default one for bonds of one coupon a year
QuotedFaceValues == {F64Dec(1, 12), F64FromInt(100)}
QuotedPrices == {F64Zero, F64One, F64FromInt(95), F64FromInt(10000)}
QuotedCouponRates == {F64Zero, F64Dec(5, 2), F64OneAndHalf}
YTMIterationCaps == {0, 2, DefaultYTMMaxIterations}
QuotedWithCap(quote) ==
  \/ quote.couponFrequency = F64One
  \/ quote.maxIterations < DefaultYTMMaxIterations

\* bonds priced at a yield equal to their coupon rate, outside the window
\* of yields of about 0: the bond of the README (1000 at 5% for 10 years,
\* two coupons a year) among them, and a rate of -0.5, at which
\* 1 + periodicYield is a power of two
ParFaceValues == {F64FromInt(100), F64FromInt(1000)}
ParRates == {F64Neg(F64Half), F64Dec(4, 2), F64Dec(5, 2)}
ParMaturities == {F64FromInt(7), F64FromInt(10), F64FromInt(60)}
ParFrequencies == {F64One, F64Two}

BondInit ==
  /\ OptimizerIdle
  /\ OptionsIdle
  /\ RegressionIdle
  /\ MeasuresIdle
  /\ bondPc = "call"
  /\ bondOut = <<>>
  /\ ytm = <<>>
  /\ ytmIter = 0
  /\ \/ /\ bondFn = "calculateBondPrice"
        /\ bond \in [faceValue : FaceValues, couponRate : CouponRates,
                     yieldRate : Yields, yearsToMaturity : Maturities,
                     couponFrequency : Frequencies, price : {F64Zero},
                     tolerance : {F64Zero}, maxIterations : {0}]
     \/ /\ bondFn = "calculateBondPrice"
        /\ \E par \in [faceValue : ParFaceValues, couponRate : ParRates,
                       yieldRate : {F64Zero}, yearsToMaturity : ParMaturities,
                       couponFrequency : ParFrequencies, price : {F64Zero},
                       tolerance : {F64Zero}, maxIterations : {0}] :
             bond = [par EXCEPT !.yieldRate = par.couponRate]
     \/ /\ bondFn = "calculateYTM"
        /\ \E quote \in [faceValue : {F64FromInt(100)},
                         couponRate : {F64Zero, F64Dec(5, 2)},
                         yieldRate : RoundTripYields,
                         yearsToMaturity : Maturities \ {F64Zero},
                         couponFrequency : {F64One}, price : {F64Zero},
                         tolerance : {DefaultYTMTolerance},
                         maxIterations : {DefaultYTMMaxIterations}] :
             /\ RoundTripQuoted(quote)
             /\ \E price \in calculateBondPriceAnswers(quote.faceValue,
                              quote.couponRate, quote.yieldRate,
                              quote.yearsToMaturity, quote.couponFrequency) :
                  bond = [quote EXCEPT !.price = price]
     \/ /\ bondFn = "calculateYTM"
        /\ bond \in [faceValue : QuotedFaceValues,
                     couponRate : QuotedCouponRates,
                     yieldRate : {F64Zero}, yearsToMaturity : {F64One},
                     couponFrequency : {F64One, F64Two}, price : QuotedPrices,
                     tolerance : {DefaultYTMTolerance},
                     maxIterations : YTMIterationCaps]
        /\ QuotedWithCap(bond)

BondNext ==
  \/ calculateBondPriceCall
  \/ YTMStart
  \/ YTMIteration
  \/ YTMExhausted

BondSpec == BondInit /\ [][BondNext]_vars

-----------------------------------------------------------------------------
(* Regression: the calls explored *)

\* a series of whole numbers, and one of the numbers values[i] / 10^k
Series(values) == [i \in 1..Len(values) |-> F64FromInt(values[i])]
DecimalSeries(values, k) == [i \in 1..Len(values) |-> F64Dec(values[i], k)]

\* the series a + b * x[i], as the doubles hold it
OnLine(a, b, x) == [i \in 1..Len(x) |-> F64Add(a, F64Mul(b, x[i]))]

\* x series for simpleLinearRegression: the constant one and the one of a
\* single point are rejected; three have values that are large against their
\* spread, and one is 0.1, 0.2, 0.3
SimpleXs ==
  { Series(<<1, 2, 3>>), Series(<<0, 1>>), Series(<<-1, 0, 2, 5>>),
    Series(<<10, 20, 30, 40, 50>>), Series(<<2, 2, 2>>), Series(<<3>>),
    Series(<<10000, 10001>>), Series(<<3333, 3333, 3334>>),
    Series(<<100000000, 100000001>>), DecimalSeries(<<1, 2, 3>>, 1) }

\* intercepts and slopes of the lines the y series lie on
Intercepts == {F64FromInt(-1), F64Zero, F64Half, F64FromInt(100)}
Slopes == {F64FromInt(-2), F64Zero, F64Quarter, F64Two}

\* y series that lie on no line, one of them without variation
ScatteredYs ==
  { Series(<<1, 3, 2>>), Series(<<5, 5, 5>>), Series(<<0, 1>>),
    Series(<<2, -1, 4, 0>>), Series(<<1, 2, 4, 8, 16>>),
    DecimalSeries(<<1, 1, 1>>, 1), DecimalSeries(<<12, -7, 31>>, 2) }

NoLine == [defined |-> FALSE, a |-> F64Zero, b |-> F64Zero]

\* factor series for the multiple regressions: three and five independent
\* ones, three with two identical series, three of three points, one alone,
\* a constant one alone, two of which the second is shorter, three of
\* decimal fractions, and none
FactorSets ==
  { <<Series(<<1, 0, 0, 0>>), Series(<<0, 1, 0, 0>>), Series(<<0, 0, 1, 0>>)>>,
    <<Series(<<1, 2, 3, 4, 5>>), Series(<<1, 0, 1, 0, 2>>), Series(<<0, 1, 1, 3, 0>>)>>,
    <<Series(<<1, 2, 3, 4, 5>>), Series(<<1, 2, 3, 4, 5>>), Series(<<0, 1, 1, 3, 0>>)>>,
    <<Series(<<1, 2, 3>>), Series(<<1, 0, 1>>), Series(<<0, 1, 1>>)>>,
    <<Series(<<1, 0, 0, 0, 0, 1>>), Series(<<0, 1, 0, 0, 0, 1>>),
      Series(<<0, 0, 1, 0, 0, 1>>), Series(<<0, 0, 0, 1, 0, 1>>),
      Series(<<0, 0, 0, 0, 1, 2>>)>>,
    <<Series(<<1, 2, 3, 4, 5>>)>>,
    <<Series(<<2, 2, 2, 2, 2>>)>>,
    <<Series(<<1, 2, 3, 4, 5>>), Series(<<1, 0, 1>>)>>,
    <<DecimalSeries(<<12, -5, 31, 7, -20>>, 3), DecimalSeries(<<3, 11, -8, 2, 5>>, 3),
      DecimalSeries(<<-4, 6, 1, -9, 10>>, 3)>>,
    <<>> }

\* dependent series for the multiple regressions, three of them without
\* variation
StockSeries ==
  { Series(<<0, 0, 0, 0>>), Series(<<3, 3, 3, 3>>), Series(<<1, 3, 2, 5>>),
    Series(<<3, 3, 3, 3, 3>>), Series(<<1, 3, 2, 5, 4>>), Series(<<2, 4, 6, 8, 10>>),
    Series(<<1, 3, 2>>), Series(<<1, 3, 2, 5, 4, 0>>), Series(<<7, 7, 7, 7, 7, 7>>),
    DecimalSeries(<<21, -13, 40, 2, -17>>, 3) }

RegInit ==
  /\ OptimizerIdle
  /\ OptionsIdle
  /\ BondsIdle
  /\ MeasuresIdle
  /\ regPc = "call"
  /\ regOut = <<>>
  /\ \/ /\ regFn = "simpleLinearRegression"
        /\ \E x \in SimpleXs :
             \/ \E a \in Intercepts, b \in Slopes :
                  reg = [x |-> <<x>>, y |-> OnLine(a, b, x),
                         line |-> [defined |-> TRUE, a |-> a, b |-> b]]
             \/ \E y \in ScatteredYs : reg = [x |-> <<x>>, y |-> y, line |-> NoLine]
     \/ /\ regFn = "multipleLinearRegression"
        /\ reg \in [x : FactorSets, y : StockSeries, line : {NoLine}]
     \/ /\ regFn = "calculateFamaFrench3Factor"
        /\ reg \in [x : {f \in FactorSets : Len(f) = 3}, y : StockSeries,
                    line : {NoLine}]
     \/ /\ regFn = "calculateFamaFrench5Factor"
        /\ reg \in [x : {f \in FactorSets : Len(f) = 5}, y : StockSeries,
                    line : {NoLine}]

RegNext ==
  \/ simpleLinearRegressionCall
  \/ multipleLinearRegressionCall
  \/ calculateFamaFrench3Factor
  \/ calculateFamaFrench5Factor

RegSpec == RegInit /\ [][RegNext]_vars

-----------------------------------------------------------------------------
(* Risk and valuation measures: the calls explored *)

\* a series of hundredths
Hundredths(values) == DecimalSeries(values, 2)

\* confidence levels and discount rates: below 0, 0, 1e-17 (1 - 1e-17 is 1
\* in doubles), inside (0, 1), 1, above 1
Levels ==
  {F64Dec(-1, 1), F64Zero, F64Dec(1, 17), F64Dec(5, 2), F64Dec(1, 1), F64Half,
   F64Dec(95, 2), F64One, F64OneAndHalf}

\* confidence levels: the levels above and NaN, which no comparison of a
\* guard finds outside (0, 1)
ConfidenceLevels == Levels \cup {F64NaN}

\* 64 returns with a NaN among them, which the sort takes as two runs and
\* merges, galloping: 0.00 up to 0.31 and 0.04 up to 0.35 (the second run
\* the longer one to merge), and 0.00 up to 0.39 and 0.24 down to 0.01 (the
\* first run the longer one, the second filled up by insertion)
RisingTwiceWithGap ==
  [i \in 1..64 |-> IF i = 51 THEN F64NaN
                   ELSE F64Dec(IF i <= 32 THEN i - 1 ELSE i - 29, 2)]
RisingAndFallingWithGap ==
  [i \in 1..64 |-> IF i = 11 THEN F64NaN
                   ELSE F64Dec(IF i <= 40 THEN i - 1 ELSE 65 - i, 2)]

\* return series, in hundredths: none, one loss, gains only, the eight
\* returns of the VaR scenario, three equal losses, losses around a 0, a
\* NaN between two returns, and the two series of 64 returns
ReturnSamples ==
  {Hundredths(<<>>), Hundredths(<<-2>>), Hundredths(<<1, 3>>),
   Hundredths(<<-5, -3, -1, 1, 2, 3, 4, 5>>), Hundredths(<<-70, -70, -70>>),
   Hundredths(<<0, -4, 2, 0>>), Hundredths(<<3, -1, -6, -2, 4>>),
   <<F64Dec(1, 2), F64NaN, F64Dec(-2, 2)>>, RisingTwiceWithGap,
   RisingAndFallingWithGap}

\* cash flows and dividends
CashFlowSamples == {Series(<<>>), Series(<<100>>), Series(<<100, 110, 121>>)}
Dividends == {F64Zero, F64Two}
GrowthRates == {F64Zero, F64Dec(3, 2), F64Dec(8, 2)}

\* years of a growth stage: none, two, one and a half, and Infinity, which
\* passes the guards and keeps the loop over the years from ending
StageYears == {F64Zero, F64Two, F64OneAndHalf, F64Inf(1)}

\* price series: none, one price, the two series of the tests, rising
\* prices, level prices, a fall from the first price
PriceSamples ==
  {Series(<<>>), Series(<<100>>), Series(<<100, 150, 140, 130, 145, 120>>),
   Series(<<100, 110, 105, 120, 100, 115>>), Series(<<100, 110, 120, 130>>),
   Series(<<50, 50, 50>>), Series(<<120, 90, 100, 60>>)}

\* returns matrices, in hundredths, one row an asset: no rows, one row,
\* two and three rows of one length, rows of different lengths, rows of one
\* value, rows of no value
ReturnMatrices ==
  { <<>>,
    <<Hundredths(<<1, 3, -2>>)>>,
    <<Hundredths(<<1, 3, -2>>), Hundredths(<<2, -1, 4>>)>>,
    <<Hundredths(<<1, 3, -2, 5>>), Hundredths(<<2, -1, 4, 0>>),
      Hundredths(<<-3, 7, 1, 1>>)>>,
    <<Hundredths(<<1, 3, -2>>), Hundredths(<<2, -1>>)>>,
    <<Hundredths(<<1, 3>>), Hundredths(<<2, -1>>), Hundredths(<<4, 0, 6>>)>>,
    <<Hundredths(<<5>>)>>,
    <<Hundredths(<<5>>), Hundredths(<<-2>>)>>,
    <<Hundredths(<<>>), Hundredths(<<>>)>> }

\* annual yields for the durations: 0, one below 1e-10 per period, below 0,
\* the coupon rate, above it
DurationYields ==
  {F64Zero, F64Dec(1, 11), F64Dec(-2, 2), F64Dec(4, 2), F64Dec(5, 2),
   F64Dec(1, 1)}

\* years to maturity: none, whole numbers of years, and a half and one and a
\* half, which with one coupon a year make half a period and a period and a
\* half
DurationYears ==
  {F64Zero, F64Half, F64One, F64OneAndHalf, F64Two, F64Three}

\* steps of the lattice: none, and one to three (the code's default is 100)
LatticeSteps == 0..3

MeasureInit ==
  /\ OptimizerIdle
  /\ OptionsIdle
  /\ BondsIdle
  /\ RegressionIdle
  /\ calcPc = "call"
  /\ calcLocals = <<>>
  /\ calcOut = <<>>
  /\ \/ /\ calcFn \in {"calculateVaR", "calculateCVaR"}
        /\ calcArgs \in [returns : ReturnSamples,
                         confidence : ConfidenceLevels]
     \/ /\ calcFn = "calculateMaxDrawdown"
        /\ calcArgs \in [prices : PriceSamples]
     \/ /\ calcFn = "calculateDCFValue"
        /\ calcArgs \in [freeCashFlows : CashFlowSamples,
                         terminalGrowthRate : {F64Zero, F64Dec(3, 2)},
                         discountRate : Levels,
                         terminalMultiple : {Omitted, Supplied(F64FromInt(10))},
                         terminalYearFCF : {Omitted, Supplied(F64FromInt(120))}]
     \/ /\ calcFn = "zeroGrowthDDM"
        /\ calcArgs \in [dividend : Dividends, discountRate : Levels]
     \/ /\ calcFn = "constantGrowthDDM"
        /\ calcArgs \in [currentDividend : Dividends, growthRate : GrowthRates,
                         discountRate : Levels]
     \/ /\ calcFn = "twoStageDDM"
        /\ calcArgs \in [currentDividend : Dividends,
                         highGrowthRate : GrowthRates, highGrowthYears : StageYears,
                         stableGrowthRate : {F64Dec(3, 2)},
                         discountRate : Levels]
     \/ /\ calcFn = "threeStageDDM"
        /\ calcArgs \in [currentDividend : Dividends,
                         highGrowthRate : {F64Dec(8, 2), F64Two},
                         highGrowthYears : StageYears,
                         transitionGrowthRate : {F64Dec(5, 2)},
                         transitionYears : StageYears,
                         stableGrowthRate : {F64Dec(3, 2)},
                         discountRate : Levels]
     \/ /\ calcFn = "calculatePresentValue"
        /\ calcArgs \in [cashFlows : CashFlowSamples, discountRate : Levels,
                         periodsPerYear : {F64One, F64Two}]
     \/ /\ calcFn = "calculateCovarianceMatrix"
        /\ calcArgs \in [returnsMatrix : ReturnMatrices]
     \/ /\ calcFn \in {"binomialTree", "americanOption", "europeanOption"}
        /\ calcArgs \in [S : {F64Zero, F64FromInt(100)},
                         K : {F64Zero, F64FromInt(90), F64FromInt(100),
                              F64FromInt(120)},
                         T : {F64Zero, F64One},
                         r : {F64Dec(-5, 2), F64Zero, F64Dec(5, 2), F64Half},
                         sigma : {F64Zero, F64Dec(2, 1)}, n : LatticeSteps,
                         optionType : {"call", "put"}]
     \/ /\ calcFn \in {"calculateMacaulayDuration", "calculateConvexity"}
        /\ calcArgs \in [faceValue : {F64Zero, F64FromInt(100), F64FromInt(1000)},
                         couponRate : {F64Zero, F64Dec(5, 2)},
                         yieldRate : DurationYields,
                         yearsToMaturity : DurationYears,
                         couponFrequency : {F64One, F64Two}]

MeasureNext ==
  \/ calculateVaRCall
  \/ calculateCVaRCall
  \/ MaxDrawdownStart
  \/ MaxDrawdownIteration
  \/ MaxDrawdownReturn
  \/ calculateDCFValueCall
  \/ zeroGrowthDDMCall
  \/ constantGrowthDDMCall
  \/ twoStageDDMCall
  \/ threeStageDDMCall
  \/ calculatePresentValueCall
  \/ calculateCovarianceMatrixCall
  \/ calculateMacaulayDurationCall
  \/ calculateConvexityCall
  \/ binomialTreeCall
  \/ americanOptionCall
  \/ europeanOptionCall

MeasureSpec == MeasureInit /\ [][MeasureNext]_vars

-----------------------------------------------------------------------------
(* Claims about bonds *)

\* C5 (as stated): calculateYTM applied to the price calculateBondPrice gives
\* at a yield y returns, within the default 100 iterations, a yield whose
\* price is within the tolerance of that price.
C5_RoundTripRecoversPrice ==
  (bondFn = "calculateYTM" /\ bondPc = "returned"
     /\ bond.maxIterations = DefaultYTMMaxIterations
     /\ bond.price \in calculateBondPriceAnswers(bond.faceValue,
                          bond.couponRate, bond.yieldRate, bond.yearsToMaturity,
                          bond.couponFrequency)) =>
    \E price \in calculateBondPriceAnswers(bond.faceValue, bond.couponRate,
                     bondOut.value, bond.yearsToMaturity, bond.couponFrequency) :
      F64Lt(F64Abs(F64Sub(price, bond.price)), bond.tolerance)

\* C6 (as stated): for fixed face value, coupon rate, years and frequency,
\* y1 < y2 implies that the price at y1 is greater than the price at y2,
\* wherever the two yields lie with respect to the zero-yield window.
C6_PriceStrictlyDecreasing ==
  (bondFn = "calculateBondPrice" /\ bondPc = "returned") =>
    \A y2 \in Yields :
      F64Lt(bond.yieldRate, y2) =>
        \E lower \in calculateBondPriceAnswers(bond.faceValue, bond.couponRate,
                         y2, bond.yearsToMaturity, bond.couponFrequency) :
          F64Lt(lower, bondOut.value)

\* C7 (as stated): for a face value above 0, a whole number of periods and
\* any frequency, when the yield equals the coupon rate calculateBondPrice
\* returns the face value, in the annuity branch and in the zero-yield
\* branch.
C7_ParPricing ==
  (bondFn = "calculateBondPrice" /\ bondPc = "returned"
     /\ bond.yieldRate = bond.couponRate
     /\ F64IsWhole(F64Mul(bond.yearsToMaturity, bond.couponFrequency))) =>
    bondOut.value = bond.faceValue

\* the answers Math.pow can give in a pass of the loop at the estimate ytm
YTMPassPowTables ==
  PowTables(YTMPassPowCalls(ytm, bond.yearsToMaturity, bond.couponFrequency))

\* calculatedPrice - price of a pass at the estimate ytm
YTMPassError(pow) ==
  F64Sub(calculateBondPricePrivate(bond.faceValue, bond.couponRate, ytm,
                                   bond.yearsToMaturity, bond.couponFrequency, pow),
         bond.price)

\* the derivative of a pass at the estimate ytm
YTMPassDerivative(pow) ==
  calculateBondPriceDerivative(bond.faceValue, bond.couponRate, ytm,
                               bond.yearsToMaturity, bond.couponFrequency, pow)

\* the state calculateYTM is in: never past the cap, raised only by the
\* guard, and returned through one of the three exits with the estimate
\* that exit leaves
YTMExitsAsDescribed ==
  bondFn = "calculateYTM" =>
    /\ ytmIter <= bond.maxIterations
    /\ bondPc = "raised" =>
         calculateYTMThrows(bond.faceValue, bond.price, bond.yearsToMaturity,
                            bond.couponFrequency)
    /\ bondPc = "returned" =>
         /\ bondOut.value = ytm
         /\ bondOut.exit \in {"converged", "break", "cap"}
         /\ bondOut.exit = "converged" =>
              /\ ytmIter < bond.maxIterations
              /\ \E pow \in YTMPassPowTables :
                   F64Lt(F64Abs(YTMPassError(pow)), bond.tolerance)
         /\ bondOut.exit = "break" =>
              /\ ytmIter < bond.maxIterations
              /\ \E pow \in YTMPassPowTables :
                   /\ ~F64Lt(F64Abs(YTMPassError(pow)), bond.tolerance)
                   /\ F64Lt(F64Abs(YTMPassDerivative(pow)), F64Dec(1, 10))
         /\ bondOut.exit = "cap" =>
              /\ ytmIter = bond.maxIterations
              /\ ytm = ClampYield(ytm)

\* a step of calculateYTM: out of the loop it returns the estimate as it
\* is, inside the loop it counts one more iteration, and nothing follows a
\* return
YTMStepAsDescribed ==
  bondFn = "calculateYTM" =>
    /\ bondPc # "returned"
    /\ bondPc # "raised"
    /\ bondPc = "loop" =>
         \/ bondPc' = "returned" /\ ytm' = ytm /\ ytmIter' = ytmIter
         \/ bondPc' = "loop" /\ ytmIter' = ytmIter + 1

\* C11 (as stated): calculateYTM with arguments that pass its guard ends
\* within maxIterations iterations and returns, without raising, through
\* exactly one of three exits: |error| < tolerance and |derivative| < 1e-10,
\* both returning the estimate not updated in that iteration, or the
\* iteration cap, returning the last clamped estimate (a value the clamp to
\* [-1, 1] leaves as it is); nothing is tried afterwards.
C11_YTMThreeExits == []YTMExitsAsDescribed /\ [][YTMStepAsDescribed]_vars

\* the cash flow of period i: the coupon, and the face value with the last
CashFlowAt(i, periods, payment) ==
  IF i = periods THEN F64Add(bond.faceValue, payment) ELSE payment

\* the sum over the periods 1..i of -(j/f) * CF_j / growth^(j + 1)
RECURSIVE PriceSlopeTo(_, _, _, _)
PriceSlopeTo(i, periods, payment, growth) ==
  IF i = 0 THEN F64Zero
  ELSE F64Sub(PriceSlopeTo(i - 1, periods, payment, growth),
              F64Div(F64Mul(F64Div(F64FromInt(i), bond.couponFrequency),
                            CashFlowAt(i, periods, payment)),
                     PowFdlibm(growth, F64FromInt(i + 1))))

\* the derivative with respect to the annual yield of the price of the
\* call's bond at yield y: the price is the sum of the cash flows CF_i
\* discounted by (1 + y/f)^i, so its derivative is the sum of
\* -(i/f) * CF_i / (1 + y/f)^(i + 1), the powers taken as fdlibm computes
\* them
PriceSlope(y) ==
  PriceSlopeTo(F64ToInt(F64Mul(bond.yearsToMaturity, bond.couponFrequency)),
               F64ToInt(F64Mul(bond.yearsToMaturity, bond.couponFrequency)),
               F64Div(F64Mul(bond.faceValue, bond.couponRate), bond.couponFrequency),
               F64Add(F64One, F64Div(y, bond.couponFrequency)))

\* whether a and b differ by at most a hundredth of the larger
WithinHundredth(a, b) ==
  F64Le(F64Mul(F64Abs(F64Sub(a, b)), F64FromInt(100)),
        MathMax(F64Abs(a), F64Abs(b)))

\* C25 (as stated): the derivative calculateYTM divides by is the derivative
\* of the bond price with respect to the annual yield, for every face value,
\* coupon rate, whole number of periods, frequency and yield with
\* 1 + yield / frequency > 0, in the general branch and in the branch of a
\* periodic yield below 1e-10 in magnitude.
C25_DerivativeIsPriceSlope ==
  (bondFn = "calculateYTM" /\ bondPc = "loop" /\ ytm.k = "num"
     /\ F64Lt(F64Zero, F64Add(F64One, F64Div(ytm, bond.couponFrequency)))) =>
    \E pow \in PowTables(calculateBondPriceDerivativePowCalls(ytm,
                           bond.yearsToMaturity, bond.couponFrequency)) :
      WithinHundredth(
        calculateBondPriceDerivative(bond.faceValue, bond.couponRate, ytm,
                                     bond.yearsToMaturity, bond.couponFrequency,
                                     pow),
        PriceSlope(ytm))

\* C26 (as stated): for every input calculateYTM accepts, the yield it
\* returns lies in [-1, 1].
C26_ReturnedYieldClamped ==
  (bondFn = "calculateYTM" /\ bondPc = "returned") =>
    /\ F64Le(F64Neg(F64One), bondOut.value)
    /\ F64Le(bondOut.value, F64One)

-----------------------------------------------------------------------------
(* Claims about regression *)

\* C8 (as stated): every result that simpleLinearRegression,
\* multipleLinearRegression and the two Fama-French regressions return has
\* 0 <= rSquared <= 1, also for a dependent series without variation.
C8_RSquaredInUnitInterval ==
  regPc = "returned" =>
    /\ F64Le(F64Zero, regOut.rSquared)
    /\ F64Le(regOut.rSquared, F64One)

\* whether a and b differ by no more than 1e-9
WithinBillionth(a, b) == F64Le(F64Abs(F64Sub(a, b)), F64Dec(1, 9))

\* C9 (as stated): on data lying exactly on y = a + b x, for an x series of
\* at least two points that is not constant, simpleLinearRegression returns
\* a result, with slope = b, intercept = a and rSquared = 1, each to within
\* 1e-9.
C9_PerfectFitHasRSquaredOne ==
  (regFn = "simpleLinearRegression" /\ regPc # "call" /\ reg.line.defined
     /\ Len(reg.y) >= 2 /\ \E i \in 1..Len(reg.y) : reg.x[1][i] # reg.x[1][1]) =>
    /\ regPc = "returned"
    /\ WithinBillionth(regOut.slope, reg.line.b)
    /\ WithinBillionth(regOut.intercept, reg.line.a)
    /\ WithinBillionth(regOut.rSquared, F64One)

\* whether every factor series has one value for each observation
FactorsComplete == \A j \in 1..Len(reg.x) : Len(reg.x[j]) = Len(reg.y)

\* the normal equations of the call, as the augmented matrix the solver
\* starts from
AugmentedOf(A, b) ==
  [i \in 1..Len(A) |-> [j \in 1..Len(A) + 1 |->
                          IF j <= Len(A) THEN A[i][j] ELSE b[i]]]

NormalSystemOf(X) == AugmentedOf(NormalMatrix(X), NormalVector(X, reg.y))

NormalSystem == NormalSystemOf(DesignMatrix(reg.x, Len(reg.y)))

\* the matrix at elimination step target, rows swapped and nothing yet
\* eliminated, steps counted from 1
RECURSIVE MatrixAtStep(_, _, _)
SwappedAtStep(swapped, i, target) ==
  IF i = target THEN swapped
  ELSE MatrixAtStep(EliminateColumn(swapped, i), i + 1, target)

MatrixAtStep(augmented, i, target) ==
  SwappedAtStep(SwapRows(augmented, i, PivotScan(augmented, i, i + 1, i)),
                i, target)

\* the pivot of step i
PivotAt(i) == MatrixAtStep(NormalSystem, 1, i)[i][i]

\* the steps the solver reaches: those after pivots of magnitude 1e-10 or more
StepsReached ==
  {i \in 1..Len(NormalSystem) : \A j \in 1..(i - 1) : ~NearZero(PivotAt(j))}

\* whether row i of the matrix holds the largest absolute entry of column i
\* among the rows from i down
LargestOnDiagonal(step, i) ==
  \A k \in i..Len(step) : F64Le(F64Abs(step[k][i]), F64Abs(step[i][i]))

\* C16: in the solver behind multipleLinearRegression the row of step i
\* holds, before the elimination, the largest absolute entry of column i
\* among the rows from i down, the rows being those of the step before in
\* another order, and the call raises exactly when a pivot it would divide
\* by, in forward elimination or in back-substitution, is below 1e-10 in
\* magnitude.
C16_PivotingAndSingularity ==
  (regFn = "multipleLinearRegression" /\ regPc # "call"
     /\ ~multipleLinearRegressionRejects(reg.y, reg.x) /\ FactorsComplete) =>
    /\ \A i \in StepsReached :
         LargestOnDiagonal(MatrixAtStep(NormalSystem, 1, i), i)
    /\ regPc = "raised" <=> \E i \in StepsReached : NearZero(PivotAt(i))
    /\ regPc = "returned" =>
         \A i \in 1..Len(NormalSystem) : ~NearZero(PivotAt(i))

\* multipleLinearRegression has raised on a constant factor: the first
\* pivot, 10, came from the second row, and the pivot left for the
\* back-substitution is 0
C16_Witness ==
  /\ regFn = "multipleLinearRegression"
  /\ regPc = "raised"
  /\ reg.x = <<Series(<<2, 2, 2, 2, 2>>)>>
  /\ Len(reg.y) = 5
  /\ PivotAt(1) = F64FromInt(10)
  /\ NormalSystem[1][1] = F64FromInt(5)
  /\ F64IsZero(PivotAt(2))

\* whether two numbers compare equal with ===: no NaN equals anything, itself
\* included
NumbersEqual(a, b) == F64Eq(a, b)

\* beta, smb, hml and, for five factors, rmw and cma of a Fama-French result
FactorLoadings(out) ==
  IF regFn = "calculateFamaFrench3Factor" THEN <<out.beta, out.smb, out.hml>>
  ELSE <<out.beta, out.smb, out.hml, out.rmw, out.cma>>

\* whether the Fama-French result out has the numbers of the exported
\* regression's result
SameRegression(out, exported) ==
  /\ NumbersEqual(out.alpha, exported.intercept)
  /\ \A j \in 1..Len(reg.x) :
       NumbersEqual(FactorLoadings(out)[j], exported.coefficients[j])
  /\ NumbersEqual(out.rSquared, exported.rSquared)

\* whether the exported multipleLinearRegression, its normal equation solved
\* as solved, returns what the Fama-French call returned
ExportedReturnsSame(solved) ==
  /\ ~solved.singular
  /\ SameRegression(regOut, multipleLinearRegression(reg.y, reg.x, solved.x))

\* C20 (as stated): calculateFamaFrench3Factor and calculateFamaFrench5Factor
\* return what the exported multipleLinearRegression returns for the stock
\* returns and the same factor series: the same intercept, coefficients and
\* rSquared, and an error whenever multipleLinearRegression raises, as it
\* does for a singular normal-equation matrix.
C20_FamaFrenchAsExportedRegression ==
  (regFn \in {"calculateFamaFrench3Factor", "calculateFamaFrench5Factor"}
     /\ regPc = "returned") =>
    /\ ~multipleLinearRegressionRejects(reg.y, reg.x)
    /\ ExportedReturnsSame(solveNormalEquation(DesignMatrix(reg.x, Len(reg.y)),
                                               reg.y))

-----------------------------------------------------------------------------
(* Claims about the risk and valuation measures *)

\* the confidence level or the discount rate of the call
CallLevel ==
  IF calcFn \in {"calculateVaR", "calculateCVaR"} THEN calcArgs.confidence
  ELSE calcArgs.discountRate

\* C13 (as stated): calculateVaR, calculateCVaR, calculateDCFValue,
\* zeroGrowthDDM, constantGrowthDDM, twoStageDDM, threeStageDDM and
\* calculatePresentValue raise when the confidence level or the discount
\* rate is not inside the open interval (0, 1): they return only for
\* 0 < level < 1.
C13_RaisesOutsideOpenUnit ==
  (calcPc = "returned"
     /\ calcFn \in {"calculateVaR", "calculateCVaR", "calculateDCFValue",
                    "zeroGrowthDDM", "constantGrowthDDM", "twoStageDDM",
                    "threeStageDDM", "calculatePresentValue"}) =>
    /\ F64Lt(F64Zero, CallLevel)
    /\ F64Lt(CallLevel, F64One)

\* the largest of a non-empty set of numbers
Largest(values) == CHOOSE v \in values : \A w \in values : F64Le(w, v)

\* the largest price at or before position j, and the fall from it at j
PeakAt(prices, j) == Largest({prices[k] : k \in 1..j})
FallAt(prices, j) ==
  F64Div(F64Sub(PeakAt(prices, j), prices[j]), PeakAt(prices, j))

\* C14: calculateMaxDrawdown returns the largest of the falls
\* (peak_j - prices[j]) / peak_j over the positions j of a non-empty series
\* of positive prices, peak_j the largest price at or before j; in the loop
\* maxPrice is that running peak and maxDrawdown the largest fall so far;
\* the result is 0 for one price and for prices that never fall; only the
\* empty series raises.
C14_MaxDrawdownIsLargestFall ==
  calcFn = "calculateMaxDrawdown" =>
    LET prices == calcArgs.prices
    IN /\ calcPc = "raised" <=> (calcPc # "call" /\ Len(prices) = 0)
       /\ calcPc = "loop" =>
            /\ calcLocals.maxPrice = PeakAt(prices, calcLocals.i)
            /\ calcLocals.maxDrawdown =
                 Largest({FallAt(prices, j) : j \in 1..calcLocals.i})
       /\ calcPc = "returned" =>
            /\ calcOut = Largest({FallAt(prices, j) : j \in 1..Len(prices)})
            /\ (\A j \in 2..Len(prices) : F64Le(prices[j - 1], prices[j])) =>
                 calcOut = F64Zero

\* calculateMaxDrawdown([100, 150, 140, 130, 145, 120]) has returned 0.2
C14_Witness ==
  /\ calcFn = "calculateMaxDrawdown"
  /\ calcPc = "returned"
  /\ calcArgs.prices = Series(<<100, 150, 140, 130, 145, 120>>)
  /\ calcOut = F64Dec(2, 1)

\* the whole number Math.floor((1 - confidence) * n)
QuantilePosition(rets, confidence) ==
  F64ToInt(QuantileIndex(confidence, Len(rets)))

\* the element at index position of the returns in ascending order, found
\* by counting: the least return with more than position returns at or below
\* it
QuantileReturn(rets, position) ==
  LET AtOrBelow(v) == Cardinality({i \in 1..Len(rets) : F64Le(rets[i], v)})
      reached == {rets[i] : i \in {j \in 1..Len(rets) : AtOrBelow(rets[j]) > position}}
  IN CHOOSE v \in reached : \A w \in reached : F64Le(v, w)

\* whether the confidence is inside (0, 1) and, for the order of the
\* returns, whether every return is a number
InsideOpenUnit(confidence) ==
  F64Lt(F64Zero, confidence) /\ F64Lt(confidence, F64One)
AllNumbers(rets) == \A i \in 1..Len(rets) : ~F64IsNaN(rets[i])

\* C15 (as stated): for a non-empty returns array and a confidence inside
\* (0, 1), |calculateCVaR(returns, confidence)| >= calculateVaR(returns,
\* confidence), and calculateVaR is the negated element at index
\* floor((1 - confidence) * n) of the returns in ascending order, 0 when that
\* element is 0 (returns with a NaN among them have no ascending order, and
\* the element is asked for when every return is a number).
C15_CVaRAtLeastVaR ==
  /\ (calcFn = "calculateVaR" /\ calcPc = "returned"
        /\ InsideOpenUnit(calcArgs.confidence)
        /\ AllNumbers(calcArgs.returns)) =>
       /\ QuantilePosition(calcArgs.returns, calcArgs.confidence)
            < Len(calcArgs.returns)
       /\ calcOut = OrZero(F64Neg(QuantileReturn(calcArgs.returns,
                        QuantilePosition(calcArgs.returns, calcArgs.confidence))))
  /\ (calcFn = "calculateCVaR" /\ calcPc = "returned"
        /\ InsideOpenUnit(calcArgs.confidence)) =>
       F64Le(calculateVaR(calcArgs.returns, calcArgs.confidence).value,
             F64Abs(calcOut))

\* whether every pair of rows of the matrix has one length
RowsOfOneLength(returnsMatrix) ==
  \A i, j \in 1..Len(returnsMatrix) :
    Len(returnsMatrix[i]) = Len(returnsMatrix[j])

\* whether m is an n x n matrix with m[i][j] equal to m[j][i] throughout
SymmetricOfSize(m, n) ==
  /\ Len(m) = n
  /\ \A i \in 1..n : Len(m[i]) = n
  /\ \A i, j \in 1..n : NumbersEqual(m[i][j], m[j][i])

\* C17 (as stated): calculateCovarianceMatrix returns, for every non-empty
\* returns matrix with rows of equal length, an n x n matrix with
\* matrix[i][j] equal to matrix[j][i]; it raises when two rows have
\* different lengths.
C17_CovarianceMatrixSymmetric ==
  (calcFn = "calculateCovarianceMatrix" /\ calcPc # "call") =>
    /\ (Len(calcArgs.returnsMatrix) > 0
          /\ RowsOfOneLength(calcArgs.returnsMatrix)) =>
         /\ calcPc = "returned"
         /\ SymmetricOfSize(calcOut, Len(calcArgs.returnsMatrix))
    /\ ~RowsOfOneLength(calcArgs.returnsMatrix) => calcPc = "raised"

\* yearsToMaturity * couponFrequency of the call
CallPeriods == F64Mul(calcArgs.yearsToMaturity, calcArgs.couponFrequency)

\* yieldRate / couponFrequency of the call
CallPeriodicYield == F64Div(calcArgs.yieldRate, calcArgs.couponFrequency)

\* the cash flows of the call's bond, one a period: the coupon, and the face
\* value with it in the last
BondCashFlows(periods) ==
  [i \in 1..periods |->
     IF i = periods
     THEN F64Add(calcArgs.faceValue,
                 couponPayment(calcArgs.faceValue, calcArgs.couponRate,
                               calcArgs.couponFrequency))
     ELSE couponPayment(calcArgs.faceValue, calcArgs.couponRate,
                        calcArgs.couponFrequency)]

\* the sum of (i / couponFrequency) * PV_i over the sum of PV_i for the
\* present values PV
WeightedAverageTimeOf(PV) ==
  F64Div(SumOfTerms([i \in 1..Len(PV) |->
                       F64Mul(F64Div(F64FromInt(i), calcArgs.couponFrequency),
                              PV[i])]),
         SumOfTerms(PV))

\* that quotient for the call's bond, the cash flows discounted when
\* discounted holds and as they are otherwise
WeightedAverageTime(discounted, pow) ==
  WeightedAverageTimeOf(
    [i \in 1..F64ToInt(CallPeriods) |->
       IF discounted
       THEN Discounted(BondCashFlows(F64ToInt(CallPeriods))[i],
                       CallPeriodicYield, F64FromInt(i), pow)
       ELSE BondCashFlows(F64ToInt(CallPeriods))[i]])

\* the answers Math.pow can give to the loop over the periods of the call
LoopPowTables ==
  PowTables(calculateMacaulayDurationPowCalls(calcArgs.faceValue,
              calcArgs.yieldRate, calcArgs.yearsToMaturity,
              calcArgs.couponFrequency))

\* C18 (as stated): for every accepted input with a whole number of periods
\* calculateMacaulayDuration equals the sum over the periods i of
\* (i / couponFrequency) * PV(cashflow_i) divided by the sum of
\* PV(cashflow_i), the last cash flow being face value plus coupon, in the
\* general branch and in the branch of a periodic yield below 1e-10 in
\* magnitude, where the present values are the undiscounted cash flows;
\* equality is to within 1e-9.
C18_DurationIsWeightedAverageTime ==
  (calcFn = "calculateMacaulayDuration" /\ calcPc = "returned"
     /\ F64Eq(CallPeriods, MathFloor(CallPeriods))) =>
    \E pow \in LoopPowTables :
      WithinBillionth(calcOut,
                      WeightedAverageTime(~NearZero(CallPeriodicYield), pow))

\* u, d, p and discount of the lattice of the call, as binomialTree
\* computes them and as europeanOption does
CallFactors ==
  binomialTreeFactors(calcArgs.T, calcArgs.r, calcArgs.sigma, calcArgs.n)

CallFactorsEuropean ==
  europeanOptionFactors(calcArgs.T, calcArgs.r, calcArgs.sigma, calcArgs.n)

\* the exercise value at node i of level j
IntrinsicAt(f, j, i, pow) ==
  ExerciseValue(calcArgs.optionType,
                NodeStockPrice(calcArgs.S, f.u, f.d, j - i, i, pow), calcArgs.K)

\* the discounted risk-neutral expectation at node i of the two nodes after
\* it in the level after
ContinuationAt(f, after, i) ==
  F64Mul(f.discount,
         F64Add(F64Mul(f.p, after[i]),
                F64Mul(F64Sub(F64One, f.p), after[i + 1])))

\* the value at every node of level j of the lattice, level n holding the
\* n + 1 payoffs at expiry and a node below it the discounted risk-neutral
\* expectation of the two nodes after it, or for early exercise the larger
\* of that and the exercise value
RECURSIVE LatticeLevelOf(_, _, _, _)
LatticeLevelFrom(f, after, j, earlyExercise, pow) ==
  [i \in 0..j |->
     IF earlyExercise
     THEN MathMax(ContinuationAt(f, after, i), IntrinsicAt(f, j, i, pow))
     ELSE ContinuationAt(f, after, i)]

LatticeLevelOf(f, j, earlyExercise, pow) ==
  IF j = calcArgs.n THEN [i \in 0..j |-> IntrinsicAt(f, j, i, pow)]
  ELSE LatticeLevelFrom(f, LatticeLevelOf(f, j + 1, earlyExercise, pow),
                        j, earlyExercise, pow)

LatticeLevel(j, earlyExercise, pow) ==
  LatticeLevelOf(CallFactors, j, earlyExercise, pow)

\* whether at every internal node of the lattice of the call the exercise
\* value is at most the continuation value
NoEarlyExerciseAt(f, j, after, pow) ==
  \A i \in 0..j :
    F64Le(IntrinsicAt(f, j, i, pow), ContinuationAt(f, after, i))

NoEarlyExerciseIn(f, pow) ==
  \A j \in 0..(calcArgs.n - 1) :
    NoEarlyExerciseAt(f, j, LatticeLevelOf(f, j + 1, TRUE, pow), pow)

NoEarlyExercise(pow) == NoEarlyExerciseIn(CallFactors, pow)

\* the outcomes of binomialTree and of europeanOption on the arguments of
\* the call, f being the factors the function has computed
CallTree(f, pow) ==
  binomialTreeGiven(calcArgs.S, calcArgs.K, calcArgs.T, calcArgs.sigma,
                    calcArgs.n, calcArgs.optionType, f, pow)

CallEuropean(f, pow) ==
  europeanOptionGiven(calcArgs.S, calcArgs.K, calcArgs.T, calcArgs.sigma,
                      calcArgs.n, calcArgs.optionType, f, pow)

\* the outcome of americanOption on the arguments of the call
CallAmerican(pow) ==
  americanOption(calcArgs.S, calcArgs.K, calcArgs.T, calcArgs.r, calcArgs.sigma,
                 calcArgs.n, calcArgs.optionType, pow)

\* the two options on one lattice, Math.pow answering pow, f being the
\* factors of binomialTree and g those of europeanOption, tree and european
\* their outcomes: the same guard, the same factors and payoffs at expiry,
\* the root of the lattice with early exercise for binomialTree and of the
\* lattice without for europeanOption, and one price where early exercise
\* is never worth more than continuation
SameLatticeGiven(tree, european, f, g, pow) ==
  /\ tree.exit = european.exit
  /\ tree.exit = "returned" =>
       /\ f = g
       /\ binomialTreeTerminalValues(calcArgs.S, calcArgs.K, f, calcArgs.n,
                                     calcArgs.optionType, pow)
            = europeanOptionTerminalValues(calcArgs.S, calcArgs.K, g,
                                           calcArgs.n, calcArgs.optionType, pow)
       /\ Len(europeanOptionTerminalValues(calcArgs.S, calcArgs.K, g,
                                           calcArgs.n, calcArgs.optionType, pow))
            = calcArgs.n + 1
       /\ tree.value = LatticeLevelOf(f, 0, TRUE, pow)[0]
       /\ european.value = LatticeLevelOf(g, 0, FALSE, pow)[0]
       /\ NoEarlyExerciseIn(f, pow) => tree.value = european.value

SameLatticeWith(f, g, pow) ==
  SameLatticeGiven(CallTree(f, pow), CallEuropean(g, pow), f, g, pow)

\* whether the call ended with the outcome given
EndedAs(outcome) ==
  /\ calcPc = outcome.exit
  /\ calcPc = "returned" => calcOut = outcome.value

\* whether the call ended as the function called ends for the answers pow,
\* americanOption as binomialTree does
EndedWith(f, g, pow) ==
  /\ EndedAs(IF calcFn = "europeanOption" THEN CallEuropean(g, pow)
             ELSE CallTree(f, pow))
  /\ calcFn = "americanOption" => CallAmerican(pow) = CallTree(f, pow)

\* the two options on one lattice however Math.pow answers among tables,
\* and the call ended as one of these answers makes it end
SameLatticeOver(tables, f, g) ==
  /\ \A pow \in tables : SameLatticeWith(f, g, pow)
  /\ \E pow \in tables : EndedWith(f, g, pow)

\* C19: americanOption and europeanOption run the same lattice (u, d, p,
\* discount, n + 1 payoffs at expiry, backward induction level by level);
\* at each internal node americanOption takes the larger of continuation
\* and exercise value and europeanOption the continuation; americanOption
\* has the outcome of binomialTree on every input, and the two options
\* return the same price whenever the exercise value is at most the
\* continuation at every internal node.  This holds however Math.pow
\* answers, and the call has ended as one of these answers makes it end.
C19_SameLatticeTwoPolicies ==
  (calcFn \in {"binomialTree", "americanOption", "europeanOption"}
     /\ calcPc # "call") =>
    SameLatticeOver(LatticePowTables, CallFactors, CallFactorsEuropean)

\* europeanOption has returned the price of a put over three steps that
\* americanOption prices higher, exercise being worth more than
\* continuation at some node
C19_Witness ==
  /\ calcFn = "europeanOption"
  /\ calcPc = "returned"
  /\ calcArgs.n = 3
  /\ calcArgs.optionType = "put"
  /\ \E pow \in LatticePowTables :
       /\ ~NoEarlyExercise(pow)
       /\ calcOut = LatticeLevel(0, FALSE, pow)[0]
       /\ F64Lt(calcOut, LatticeLevel(0, TRUE, pow)[0])

\* the array optionValues of the call when the inner loop is about to compute
\* node i of level j (i = j + 1: when it has finished level j); level n is
\* the array of payoffs the first loop has pushed
RECURSIVE ArrayAtNodeOf(_, _, _, _)
ArrayAtNodeOf(f, j, i, pow) ==
  IF j = calcArgs.n
  THEN IF calcFn = "europeanOption"
       THEN europeanOptionTerminalValues(calcArgs.S, calcArgs.K, f, calcArgs.n,
                                         calcArgs.optionType, pow)
       ELSE binomialTreeTerminalValues(calcArgs.S, calcArgs.K, f, calcArgs.n,
                                       calcArgs.optionType, pow)
  ELSE IF i = 0
  THEN ArrayAtNodeOf(f, j + 1, IF j + 1 = calcArgs.n THEN 0 ELSE j + 2, pow)
  ELSE IF calcFn = "europeanOption"
  THEN europeanOptionNode(ArrayAtNodeOf(f, j, i - 1, pow), f, i - 1)
  ELSE binomialTreeNode(ArrayAtNodeOf(f, j, i - 1, pow), calcArgs.S, calcArgs.K,
                        f, calcArgs.optionType, j, i - 1, pow)

ArrayAtNode(j, i, pow) == ArrayAtNodeOf(CallFactors, j, i, pow)

\* the array the loops of the function leave
ArrayLeft(f, pow) ==
  IF calcFn = "europeanOption"
  THEN europeanOptionBackward(
         europeanOptionTerminalValues(calcArgs.S, calcArgs.K, f, calcArgs.n,
                                      calcArgs.optionType, pow),
         f, calcArgs.n - 1)
  ELSE binomialTreeBackward(
         binomialTreeTerminalValues(calcArgs.S, calcArgs.K, f, calcArgs.n,
                                    calcArgs.optionType, pow),
         calcArgs.S, calcArgs.K, f, calcArgs.optionType, calcArgs.n - 1, pow)

\* the array after the body of the inner loop of the function called at
\* node i of level j
ArrayAfterNode(optionValues, f, j, i, pow) ==
  IF calcFn = "europeanOption" THEN europeanOptionNode(optionValues, f, i)
  ELSE binomialTreeNode(optionValues, calcArgs.S, calcArgs.K, f,
                        calcArgs.optionType, j, i, pow)

\* the induction in place from node i of level j on, optionValues being the
\* array and after the values of the nodes of level j + 1: node i reads the
\* values of level j + 1, level j leaves the values of its nodes in the
\* entries 0..j, and the array after level 0 is the one the loops leave,
\* its entry 0 the value of the root
RECURSIVE InPlaceFrom(_, _, _, _, _, _, _)
InPlaceLevelDone(optionValues, level, f, j, earlyExercise, pow) ==
  /\ \A k \in 0..j : optionValues[k + 1] = level[k]
  /\ InPlaceFrom(optionValues, level, f, j - 1, 0, earlyExercise, pow)

InPlaceFrom(optionValues, after, f, j, i, earlyExercise, pow) ==
  IF j < 0
  THEN /\ optionValues = ArrayLeft(f, pow)
       /\ optionValues[1] = after[0]
  ELSE IF i > j
  THEN InPlaceLevelDone(optionValues,
                        LatticeLevelFrom(f, after, j, earlyExercise, pow),
                        f, j, earlyExercise, pow)
  ELSE /\ optionValues[i + 1] = after[i]
       /\ optionValues[i + 2] = after[i + 1]
       /\ InPlaceFrom(ArrayAfterNode(optionValues, f, j, i, pow), after, f, j,
                      i + 1, earlyExercise, pow)

\* the induction in place of the call, Math.pow answering pow, from the
\* array of payoffs the first loop has pushed
InPlaceWith(f, earlyExercise, pow) ==
  InPlaceFrom(ArrayAtNodeOf(f, calcArgs.n, 0, pow),
              LatticeLevelOf(f, calcArgs.n, earlyExercise, pow),
              f, calcArgs.n - 1, 0, earlyExercise, pow)

\* the induction in place however Math.pow answers among tables, f being
\* the factors of the function called, and the value returned the root for
\* one of these answers
InPlaceOver(tables, f) ==
  /\ \A pow \in tables : InPlaceWith(f, calcFn # "europeanOption", pow)
  /\ \E pow \in tables :
       /\ calcOut = ArrayLeft(f, pow)[1]
       /\ calcOut = LatticeLevelOf(f, 0, calcFn # "europeanOption", pow)[0]

\* C27: in binomialTree and europeanOption, when node i of level j is
\* computed, optionValues[i] and optionValues[i + 1] still hold the values of
\* level j + 1; after level j the entries 0..j hold the values of the nodes
\* of level j; the array after level 0 is the one the loops of the function
\* leave, and the value returned is its entry 0, the value of the root.
\* This holds however Math.pow answers, and the value returned is the root
\* for one of these answers.
C27_InPlaceInductionReadsPreviousLevel ==
  (calcFn \in {"binomialTree", "americanOption", "europeanOption"}
     /\ calcPc = "returned") =>
    InPlaceOver(LatticePowTables,
                IF calcFn = "europeanOption" THEN CallFactorsEuropean
                ELSE CallFactors)

\* binomialTree has returned the price of a put over three steps; level 1
\* has overwritten entries 0 and 1 of the array with values other than those
\* level 2 left there, and entry 2 still holds its value of level 2
C27_Witness ==
  /\ calcFn = "binomialTree"
  /\ calcPc = "returned"
  /\ calcArgs.n = 3
  /\ calcArgs.optionType = "put"
  /\ \E pow \in LatticePowTables :
       /\ ArrayAtNode(1, 2, pow)[1] # ArrayAtNode(2, 3, pow)[1]
       /\ ArrayAtNode(1, 2, pow)[2] # ArrayAtNode(2, 3, pow)[2]
       /\ ArrayAtNode(1, 2, pow)[3] = ArrayAtNode(2, 3, pow)[3]
       /\ ArrayAtNode(1, 2, pow)[3] = LatticeLevel(2, TRUE, pow)[2]
       /\ calcOut = ArrayAtNode(0, 1, pow)[1]

\* C28 (as stated): for every accepted input and both option types
\* americanOption returns at least what europeanOption returns on the same
\* arguments, and at every node of the lattice the value with early exercise
\* is at least the value without, also when the probability p is outside
\* [0, 1]; the two functions are given the same answers by Math.pow.
C28_AmericanAtLeastEuropean ==
  (calcFn \in {"americanOption", "europeanOption"} /\ calcPc = "returned") =>
    \E pow \in LatticePowTables :
      /\ F64Le(CallEuropean(CallFactorsEuropean, pow).value,
               CallAmerican(pow).value)
      /\ \A j \in 0..calcArgs.n :
           \A i \in 0..j :
             F64Le(LatticeLevelOf(CallFactors, j, FALSE, pow)[i],
                   LatticeLevelOf(CallFactors, j, TRUE, pow)[i])

\* the cash flow of period i in the loop of the function called
LoopCashFlow(periods, i) ==
  IF calcFn = "calculateConvexity"
  THEN ConvexityCashFlow(calcArgs.faceValue,
                         couponPayment(calcArgs.faceValue, calcArgs.couponRate,
                                       calcArgs.couponFrequency),
                         periods, i)
  ELSE DurationCashFlow(calcArgs.faceValue,
                        couponPayment(calcArgs.faceValue, calcArgs.couponRate,
                                      calcArgs.couponFrequency),
                        periods, i)

\* presentValueSum when the loop of the function called has ended
LoopPresentValueSum(pow) ==
  IF calcFn = "calculateConvexity"
  THEN ConvexityPresentValueSum(calcArgs.faceValue, calcArgs.couponRate,
                                calcArgs.yieldRate, calcArgs.yearsToMaturity,
                                calcArgs.couponFrequency, pow)
  ELSE DurationPresentValueSum(calcArgs.faceValue, calcArgs.couponRate,
                               calcArgs.yieldRate, calcArgs.yearsToMaturity,
                               calcArgs.couponFrequency, pow)

\* C30 (as stated): for every input calculateMacaulayDuration and
\* calculateConvexity accept, a years-to-maturity times frequency that is
\* not whole included, the loop over the periods (run when the periodic
\* yield is not below 1e-10 in magnitude) takes the face value into exactly
\* one cash flow, its last, and the present-value sum it accumulates is the
\* price calculateBondPrice returns for the same arguments, to within 1e-9.
C30_LoopCashFlowsMakeThePrice ==
  (calcFn \in {"calculateMacaulayDuration", "calculateConvexity"}
     /\ calcPc # "call"
     /\ ~DurationThrows(calcArgs.faceValue, calcArgs.yearsToMaturity,
                        calcArgs.couponFrequency)
     /\ ~NearZero(CallPeriodicYield)) =>
    /\ LoopTurns(CallPeriods) >= 1
    /\ \A i \in 1..LoopTurns(CallPeriods) :
         LoopCashFlow(CallPeriods, i) =
           IF i = LoopTurns(CallPeriods)
           THEN F64Add(calcArgs.faceValue,
                       couponPayment(calcArgs.faceValue, calcArgs.couponRate,
                                     calcArgs.couponFrequency))
           ELSE couponPayment(calcArgs.faceValue, calcArgs.couponRate,
                              calcArgs.couponFrequency)
    /\ \E pow \in LoopPowTables :
         \E price \in calculateBondPriceAnswers(calcArgs.faceValue,
                          calcArgs.couponRate, calcArgs.yieldRate,
                          calcArgs.yearsToMaturity, calcArgs.couponFrequency) :
           WithinBillionth(LoopPresentValueSum(pow), price)

-----------------------------------------------------------------------------
(* Claims about option pricing *)

\* whether S, K, T and sigma of the call are strictly positive
FourPositive ==
  /\ F64Gt(option.S, F64Zero)
  /\ F64Gt(option.K, F64Zero)
  /\ F64Gt(option.T, F64Zero)
  /\ F64Gt(option.sigma, F64Zero)

\* whether S, K, T, r and sigma of the call are strictly positive
AllFivePositive == FourPositive /\ F64Gt(option.r, F64Zero)

\* C3 (as stated): blackScholes raises the error of its guard whenever one
\* of S, K, T, r, sigma is not strictly positive, and returns a price only
\* when all five are strictly positive.
C3_RaisesUnlessAllFivePositive ==
  (optionFn = "blackScholes" /\ optionPc # "call") =>
    /\ ~AllFivePositive => (optionPc = "raised" /\ optionOut.exit = "guard")
    /\ optionPc = "returned" => AllFivePositive

\* S - K * e^(-rT) for the arguments of the call
ParityGap ==
  F64Sub(option.S,
         F64Mul(option.K, MathExp(F64Neg(F64Mul(option.r, option.T)))))

\* C4 (as stated): for every valid S, K, T, r, sigma the two calls
\* blackScholes(..., 'call') and blackScholes(..., 'put') return prices whose
\* difference is S - K * e^(-rT), to within 1e-9.
C4_PutCallParity ==
  (optionFn = "blackScholes" /\ optionPc # "call" /\ FourPositive) =>
    LET asCall == blackScholes(option.S, option.K, option.T, option.r,
                               option.sigma, "call")
        asPut  == blackScholes(option.S, option.K, option.T, option.r,
                               option.sigma, "put")
    IN /\ asCall.exit = "price"
       /\ asPut.exit = "price"
       /\ WithinBillionth(F64Sub(asCall.value, asPut.value), ParityGap)

\* C10 (as stated): for marketPrice > 0 and valid S, K, T,
\* calculateImpliedVolatility ends by returning a volatility, at a midpoint
\* that meets the tolerance or at the midpoint of the last of at most
\* maxIterations passes; it raises nothing.
C10_ImpliedVolTerminates ==
  (optionFn = "calculateImpliedVolatility" /\ optionPc # "call"
     /\ F64Gt(iv.marketPrice, F64Zero)
     /\ F64Gt(option.S, F64Zero) /\ F64Gt(option.K, F64Zero)
     /\ F64Gt(option.T, F64Zero)) =>
    /\ optionPc \in {"loop", "returned"}
    /\ optionPc = "returned" => optionOut.exit \in {"converged", "cap"}

\* C24 (as stated, the part that speaks of single states): a call of
\* calculateImpliedVolatility that passes the guard with maxIterations > 0
\* iterates, at every iteration 0.001 <= lowVol <= midVol <= highVol <= 5.0,
\* and the volatility it returns lies in [0.001, 5.0].
C24_BisectionBracket ==
  (optionFn = "calculateImpliedVolatility" /\ optionPc # "call"
     /\ F64Gt(iv.marketPrice, F64Zero) /\ iv.maxIterations > 0) =>
    /\ optionPc \in {"loop", "returned"}
    /\ optionPc = "loop" =>
         /\ F64Le(F64Dec(1, 3), iv.lowVol)
         /\ F64Le(iv.lowVol, iv.midVol)
         /\ F64Le(iv.midVol, iv.highVol)
         /\ F64Le(iv.highVol, F64FromInt(5))
    /\ optionPc = "returned" =>
         /\ F64Le(F64Dec(1, 3), optionOut.value)
         /\ F64Le(optionOut.value, F64FromInt(5))

=============================================================================
